---- MODULE Spec2Model ----
(***************************************************************************)
(* A model of PyNetworkLib's server framework.                             *)
(*                                                                         *)
(* Part 1 (specifications Spec and LiveSpec): the server lifecycle of      *)
(* Server/ServerBase.py on top of the mitigated accept loop of             *)
(* Server/PySocketServer.py: ThreadedServeUntilTerminate() callers,        *)
(* Terminate() callers and the serve thread, one step per statement that   *)
(* reads or writes shared state.                                           *)
(*                                                                         *)
(* Part 2 (specification HttpSpec): one connection worker of               *)
(* Server/HTTP/PreHandler.py handling requests through                     *)
(* PreHandler._HandleOneRequest and a chain of stages.                     *)
(*                                                                         *)
(* Part 3 (specification StageSpec): one stage of Server/HTTP/Auth,        *)
(* Server/HTTPS/Auth, Server/HTTP/HandlerByPath or Server/Utils with       *)
(* concurrent callers of its HandleRequest.                                *)
(*                                                                         *)
(* Part 4 (specification HostFieldSpec): one call of ParseHostField of     *)
(* Server/HTTP/Utils/HostField.py.                                         *)
(*                                                                         *)
(* Part 5 (specification HandlerStateSpec): the server's HandlerState of   *)
(* Server/Utils/HandlerState.py read and written by concurrent workers.    *)
(*                                                                         *)
(* Part 6 (specifications ListenSpec and ListenLiveSpec): the accept loop  *)
(* on a TLS listener, Server/TLS/ListenSocket.py, with the certificate     *)
(* reload of TLS/SSLContext.py.                                            *)
(*                                                                         *)
(* Part 7 (specification BlockSpec): the requester records, the blocked    *)
(* state and the saved file of Utils/DownstreamHandlerBlockByRate.py       *)
(* under concurrent callers (StageSpec takes the result of IsIpBlocked as  *)
(* an input).                                                              *)
(*                                                                         *)
(* Part 8 (specifications ReadSpec and ReadLiveSpec): the wait of a        *)
(* connection worker for a request line, PreHandler._RFileReadline, poll   *)
(* by poll (HttpSpec takes its result as an input).                        *)
(***************************************************************************)
EXTENDS Integers, Sequences, FiniteSets, TLC

VARIABLES
    \* ---- Server/ServerBase.py, Server/PySocketServer.py ----
    terminateEvent,         \* ServerBase.terminateEvent (threading.Event)
    hasShutdownRequest,     \* _MitigatedServer.__hasShutdownRequest (threading.Event)
    stateLock,              \* ServerBase.stateLock: 0 = free, else the holder
    hasServeThreadStarted,  \* ServerBase.hasServeThreadStarted
    threadsStarted,         \* number of threading.Thread objects created and started
    servePc,                \* position of the serve thread in serve_forever
    ready,                  \* result of selector.select(poll_interval)
    numAccepted,            \* connections taken by _handle_request_noblock
    socketClosed,           \* server_close() has closed the listening socket
    startPc,                \* position of each ThreadedServeUntilTerminate() call
    termPc,                 \* position of each Terminate() call
    termAtEntry,            \* history: terminateEvent when the call took stateLock
    spawned,                \* history: the call created and started a thread
    \* ---- Server/HTTP: one connection worker (PreHandler instance) ----
    enabledCommands,        \* ServerBase.enabledCommands (HTTP/ServerBase.py)
    chain,                  \* the stages below ServerBase.downstreamHTTPHdlr, root first
    wpc,                    \* position of the worker in PreHandler.handle
    req,                    \* the request parsed by parse_request
    reqIdx,                 \* requests read on this connection so far
    py,                     \* the PreHandler/PyHandlerBase object's response state
    rootInvoked,            \* history: downstreamHTTPHdlr.HandleRequest was called
    handlerRan,             \* history: what the business handler did, if reached
    excCaught,              \* history: the except branch of _HandleOneRequest ran
    \* ---- one stage and the threads calling its HandleRequest ----
    stageCfg,               \* the stage and its constructor arguments
    cpc,                    \* position of each caller in HandleRequest
    call,                   \* what each caller's current call has done
    clock,                  \* time.time()
    semaphore,              \* ConcurrentLimiter._semaphore: permits left
    reqTimes,               \* RateLimiter._reqTimes (deque), oldest first
    reqTimesLock,           \* RateLimiter._reqTimesLock: 0 = free, else the holder
    \* ---- one call of HTTP/Utils/HostField.ParseHostField ----
    hfHost,                 \* the argument host
    hfDefaultPort,          \* the argument defaultPort
    hfResult,               \* the returned host field, or the error raised
    \* ---- Server/Utils/HandlerState.py and the workers using it ----
    hsStore,                \* HandlerState._store
    hsLock,                 \* HandlerState._lock: 0 = free, else the holder
    hsPc,                   \* position of each worker in __getitem__/__setitem__
    hsCall,                 \* each worker's current or last call and its result
    hsCompleted,            \* history: per key, the value of the last write that returned
    \* ---- Server/TLS/ListenSocket.py with TLS/SSLContext.py ----
    lsNow,                  \* datetime.now(utc), in days
    lsPc,                   \* position of the accept loop in ListenSocket.accept
    lsPathSet,              \* SSLContext._certChainPath is not None
    lsExpiresAt,            \* SSLContext._expiresAt, in days
    lsDisk,                 \* the certificate chain and key files at those paths
    lsAccept,               \* history: what the current or last accept has done
    \* ---- Server/Utils/DownstreamHandlerBlockByRate.py and its callers ----
    bbCfg,                  \* the constructor arguments
    bbNow,                  \* time.time()
    bbHosts,                \* _blockedState._hosts (the keys)
    bbStateLock,            \* _blockedStateLock: 0 = free, else the holder
    bbRecordLock,           \* _requesterRecordLock: 0 = free, else the holder
    bbList,                 \* _requesterList (deque), oldest first
    bbCounter,              \* _requesterCounter (dict: ipObj -> count)
    bbFile,                 \* the file at savedStatePath
    bbPc,                   \* position of each caller in HandleRequest
    bbCall,                 \* what each caller's current call has read and done
    bbIssued,               \* number of HandleRequest calls made so far
    bbExceeded,             \* history: IPs whose count was raised above maxNumRequests
    \* ---- HTTP/PreHandler.py: the wait for a request line ----
    rwPc,                   \* position of the worker in handle() / _RFileReadline
    rwElapsed,              \* time.time() - startTime, in poll intervals
    rwData,                 \* the client has sent data that was not read yet
    rwRead,                 \* request lines handed to handle_one_request so far
    rwCause                 \* history: why _RFileReadline returned b''

lifeVars == <<terminateEvent, hasShutdownRequest, stateLock, hasServeThreadStarted,
              threadsStarted, servePc, ready, numAccepted, socketClosed,
              startPc, termPc, termAtEntry, spawned>>

httpVars == <<enabledCommands, chain, wpc, req, reqIdx, py, rootInvoked,
              handlerRan, excCaught>>

stageVars == <<stageCfg, cpc, call, clock, semaphore, reqTimes, reqTimesLock>>

hostVars == <<hfHost, hfDefaultPort, hfResult>>

hsVars == <<hsStore, hsLock, hsPc, hsCall, hsCompleted>>

listenVars == <<lsNow, lsPc, lsPathSet, lsExpiresAt, lsDisk, lsAccept>>

blockVars == <<bbCfg, bbNow, bbHosts, bbStateLock, bbRecordLock, bbList,
               bbCounter, bbFile, bbPc, bbCall, bbIssued, bbExceeded>>

readVars == <<rwPc, rwElapsed, rwData, rwRead, rwCause>>

extVars == <<hostVars, hsVars, listenVars, blockVars, readVars>>

vars == <<lifeVars, httpVars, stageVars, extVars>>

-----------------------------------------------------------------------------
\* Bounds of the model
NumStarters == 2        \* concurrent ThreadedServeUntilTerminate() calls
NumTerminators == 1     \* concurrent Terminate() calls
MaxAccept == 1          \* connections that arrive at the listener

Starters == 1..NumStarters
Terminators == (NumStarters + 1)..(NumStarters + NumTerminators)

ServeRunning == {"top", "select", "post", "handle", "busy", "actions"}
ServeStopped == {"none", "exited"}

-----------------------------------------------------------------------------
\* ServerBase.ServerInit and _MitigatedServer.__init__
LifeInit ==
    /\ terminateEvent = FALSE
    /\ hasShutdownRequest = FALSE
    /\ stateLock = 0
    /\ hasServeThreadStarted = FALSE
    /\ threadsStarted = 0
    /\ servePc = "none"
    /\ ready = FALSE
    /\ numAccepted = 0
    /\ socketClosed = FALSE
    /\ startPc = [s \in Starters |-> "idle"]
    /\ termPc = [t \in Terminators |-> "idle"]
    /\ termAtEntry = [s \in Starters |-> FALSE]
    /\ spawned = [s \in Starters |-> FALSE]

-----------------------------------------------------------------------------
\* ServerBase.ThreadedServeUntilTerminate

\* `with self.stateLock:` entered
TSUT_Acquire(s) ==
    /\ startPc[s] = "idle"
    /\ stateLock = 0
    /\ stateLock' = s
    /\ startPc' = [startPc EXCEPT ![s] = "chkStarted"]
    /\ termAtEntry' = [termAtEntry EXCEPT ![s] = terminateEvent]
    /\ UNCHANGED <<terminateEvent, hasShutdownRequest, hasServeThreadStarted,
                   threadsStarted, servePc, ready, numAccepted, socketClosed,
                   termPc, spawned>>
    /\ UNCHANGED <<httpVars, stageVars, extVars>>

\* The same step without the test of hasServeThreadStarted
TSUT_CheckStartedNoCheck(s) ==
    /\ startPc[s] = "chkStarted"
    /\ startPc' = [startPc EXCEPT ![s] = "chkTerm"]
    /\ UNCHANGED <<terminateEvent, hasShutdownRequest, stateLock,
                   hasServeThreadStarted, threadsStarted, servePc, ready,
                   numAccepted, socketClosed, termPc, termAtEntry, spawned>>
    /\ UNCHANGED <<httpVars, stageVars, extVars>>

\* `if self.hasServeThreadStarted: return` (the return leaves the with block)
TSUT_CheckStarted(s) ==
    /\ startPc[s] = "chkStarted"
    /\ IF hasServeThreadStarted
         THEN /\ startPc' = [startPc EXCEPT ![s] = "done"]
              /\ stateLock' = 0
         ELSE /\ startPc' = [startPc EXCEPT ![s] = "chkTerm"]
              /\ UNCHANGED stateLock
    /\ UNCHANGED <<terminateEvent, hasShutdownRequest, hasServeThreadStarted,
                   threadsStarted, servePc, ready, numAccepted, socketClosed,
                   termPc, termAtEntry, spawned>>
    /\ UNCHANGED <<httpVars, stageVars, extVars>>

\* The same step without the test of terminateEvent
TSUT_CheckTermNoCheck(s) ==
    /\ startPc[s] = "chkTerm"
    /\ startPc' = [startPc EXCEPT ![s] = "mark"]
    /\ UNCHANGED <<terminateEvent, hasShutdownRequest, stateLock,
                   hasServeThreadStarted, threadsStarted, servePc, ready,
                   numAccepted, socketClosed, termPc, termAtEntry, spawned>>
    /\ UNCHANGED <<httpVars, stageVars, extVars>>

\* `if self.terminateEvent.is_set(): return`
TSUT_CheckTerm(s) ==
    /\ startPc[s] = "chkTerm"
    /\ IF terminateEvent
         THEN /\ startPc' = [startPc EXCEPT ![s] = "done"]
              /\ stateLock' = 0
         ELSE /\ startPc' = [startPc EXCEPT ![s] = "mark"]
              /\ UNCHANGED stateLock
    /\ UNCHANGED <<terminateEvent, hasShutdownRequest, hasServeThreadStarted,
                   threadsStarted, servePc, ready, numAccepted, socketClosed,
                   termPc, termAtEntry, spawned>>
    /\ UNCHANGED <<httpVars, stageVars, extVars>>

\* `self.hasServeThreadStarted = True`
TSUT_Mark(s) ==
    /\ startPc[s] = "mark"
    /\ hasServeThreadStarted' = TRUE
    /\ startPc' = [startPc EXCEPT ![s] = "spawn"]
    /\ UNCHANGED <<terminateEvent, hasShutdownRequest, stateLock, threadsStarted,
                   servePc, ready, numAccepted, socketClosed, termPc,
                   termAtEntry, spawned>>
    /\ UNCHANGED <<httpVars, stageVars, extVars>>

\* `self._serveThread = threading.Thread(...); self._serveThread.start()`
\* The new thread runs ServeUntilTerminate -> _ServeForever -> serve_forever.
TSUT_Spawn(s) ==
    /\ startPc[s] = "spawn"
    /\ threadsStarted' = threadsStarted + 1
    /\ servePc' = "top"
    /\ spawned' = [spawned EXCEPT ![s] = TRUE]
    /\ startPc' = [startPc EXCEPT ![s] = "unlock"]
    /\ UNCHANGED <<terminateEvent, hasShutdownRequest, stateLock,
                   hasServeThreadStarted, ready, numAccepted, socketClosed,
                   termPc, termAtEntry>>
    /\ UNCHANGED <<httpVars, stageVars, extVars>>

\* end of the with block
TSUT_Release(s) ==
    /\ startPc[s] = "unlock"
    /\ stateLock' = 0
    /\ startPc' = [startPc EXCEPT ![s] = "done"]
    /\ UNCHANGED <<terminateEvent, hasShutdownRequest, hasServeThreadStarted,
                   threadsStarted, servePc, ready, numAccepted, socketClosed,
                   termPc, termAtEntry, spawned>>
    /\ UNCHANGED <<httpVars, stageVars, extVars>>

-----------------------------------------------------------------------------
\* ServerBase.Terminate

\* The same step without setting the termination event
Terminate_SetEventNoSet(t) ==
    /\ termPc[t] = "idle"
    /\ termPc' = [termPc EXCEPT ![t] = "shutdown"]
    /\ UNCHANGED <<terminateEvent, hasShutdownRequest, stateLock,
                   hasServeThreadStarted, threadsStarted, servePc, ready,
                   numAccepted, socketClosed, startPc, termAtEntry, spawned>>
    /\ UNCHANGED <<httpVars, stageVars, extVars>>

\* `self.terminateEvent.set()`
Terminate_SetEvent(t) ==
    /\ termPc[t] = "idle"
    /\ terminateEvent' = TRUE
    /\ termPc' = [termPc EXCEPT ![t] = "shutdown"]
    /\ UNCHANGED <<hasShutdownRequest, stateLock, hasServeThreadStarted,
                   threadsStarted, servePc, ready, numAccepted, socketClosed,
                   startPc, termAtEntry, spawned>>
    /\ UNCHANGED <<httpVars, stageVars, extVars>>

\* The same step without setting the shutdown flag
Terminate_ShutdownNoFlag(t) ==
    /\ termPc[t] = "shutdown"
    /\ termPc' = [termPc EXCEPT ![t] = "lock"]
    /\ UNCHANGED <<terminateEvent, hasShutdownRequest, stateLock,
                   hasServeThreadStarted, threadsStarted, servePc, ready,
                   numAccepted, socketClosed, startPc, termAtEntry, spawned>>
    /\ UNCHANGED <<httpVars, stageVars, extVars>>

\* `self._Shutdown()` -> _MitigatedServer.shutdown: `self.__hasShutdownRequest.set()`
Terminate_Shutdown(t) ==
    /\ termPc[t] = "shutdown"
    /\ hasShutdownRequest' = TRUE
    /\ termPc' = [termPc EXCEPT ![t] = "lock"]
    /\ UNCHANGED <<terminateEvent, stateLock, hasServeThreadStarted,
                   threadsStarted, servePc, ready, numAccepted, socketClosed,
                   startPc, termAtEntry, spawned>>
    /\ UNCHANGED <<httpVars, stageVars, extVars>>

\* `with self.stateLock:` entered
Terminate_Acquire(t) ==
    /\ termPc[t] = "lock"
    /\ stateLock = 0
    /\ stateLock' = t
    /\ termPc' = [termPc EXCEPT ![t] = "chkStarted"]
    /\ UNCHANGED <<terminateEvent, hasShutdownRequest, hasServeThreadStarted,
                   threadsStarted, servePc, ready, numAccepted, socketClosed,
                   startPc, termAtEntry, spawned>>
    /\ UNCHANGED <<httpVars, stageVars, extVars>>

\* The same step without the join of the serve thread
Terminate_CheckStartedNoJoin(t) ==
    /\ termPc[t] = "chkStarted"
    /\ termPc' = [termPc EXCEPT ![t] = "unlock"]
    /\ UNCHANGED <<terminateEvent, hasShutdownRequest, stateLock,
                   hasServeThreadStarted, threadsStarted, servePc, ready,
                   numAccepted, socketClosed, startPc, termAtEntry, spawned>>
    /\ UNCHANGED <<httpVars, stageVars, extVars>>

\* `if self.hasServeThreadStarted:` decides whether to join
Terminate_CheckStarted(t) ==
    /\ termPc[t] = "chkStarted"
    /\ termPc' = [termPc EXCEPT ![t] =
                    IF hasServeThreadStarted THEN "join" ELSE "unlock"]
    /\ UNCHANGED <<terminateEvent, hasShutdownRequest, stateLock,
                   hasServeThreadStarted, threadsStarted, servePc, ready,
                   numAccepted, socketClosed, startPc, termAtEntry, spawned>>
    /\ UNCHANGED <<httpVars, stageVars, extVars>>

\* `self._serveThread.join()`: returns once the serve thread has exited
Terminate_Join(t) ==
    /\ termPc[t] = "join"
    /\ servePc = "exited"
    /\ termPc' = [termPc EXCEPT ![t] = "unlock"]
    /\ UNCHANGED <<terminateEvent, hasShutdownRequest, stateLock,
                   hasServeThreadStarted, threadsStarted, servePc, ready,
                   numAccepted, socketClosed, startPc, termAtEntry, spawned>>
    /\ UNCHANGED <<httpVars, stageVars, extVars>>

\* end of the with block
Terminate_Release(t) ==
    /\ termPc[t] = "unlock"
    /\ stateLock' = 0
    /\ termPc' = [termPc EXCEPT ![t] = "cleanup"]
    /\ UNCHANGED <<terminateEvent, hasShutdownRequest, hasServeThreadStarted,
                   threadsStarted, servePc, ready, numAccepted, socketClosed,
                   startPc, termAtEntry, spawned>>
    /\ UNCHANGED <<httpVars, stageVars, extVars>>

\* `self._CleanUp()` -> server_close(): the listening socket is closed
Terminate_CleanUp(t) ==
    /\ termPc[t] = "cleanup"
    /\ socketClosed' = TRUE
    /\ termPc' = [termPc EXCEPT ![t] = "done"]
    /\ UNCHANGED <<terminateEvent, hasShutdownRequest, stateLock,
                   hasServeThreadStarted, threadsStarted, servePc, ready,
                   numAccepted, startPc, termAtEntry, spawned>>
    /\ UNCHANGED <<httpVars, stageVars, extVars>>

-----------------------------------------------------------------------------
\* _MitigatedServer.serve_forever, run by the serve thread

\* `while not self.__hasShutdownRequest.is_set():`
Serve_Top ==
    /\ servePc = "top"
    /\ servePc' = IF hasShutdownRequest THEN "exited" ELSE "select"
    /\ UNCHANGED <<terminateEvent, hasShutdownRequest, stateLock,
                   hasServeThreadStarted, threadsStarted, ready, numAccepted,
                   socketClosed, startPc, termPc, termAtEntry, spawned>>
    /\ UNCHANGED <<httpVars, stageVars, extVars>>

\* `ready = selector.select(poll_interval)`: returns after at most 0.5 s, with
\* the listener readable if a connection is pending
Serve_Select ==
    /\ servePc = "select"
    /\ \E r \in BOOLEAN :
         /\ r => numAccepted < MaxAccept
         /\ ready' = r
    /\ servePc' = "post"
    /\ UNCHANGED <<terminateEvent, hasShutdownRequest, stateLock,
                   hasServeThreadStarted, threadsStarted, numAccepted,
                   socketClosed, startPc, termPc, termAtEntry, spawned>>
    /\ UNCHANGED <<httpVars, stageVars, extVars>>

\* The same step without the test of the shutdown flag after the wait
Serve_PostNoCheck ==
    /\ servePc = "post"
    /\ servePc' = IF ready THEN "handle" ELSE "actions"
    /\ UNCHANGED <<terminateEvent, hasShutdownRequest, stateLock,
                   hasServeThreadStarted, threadsStarted, ready, numAccepted,
                   socketClosed, startPc, termPc, termAtEntry, spawned>>
    /\ UNCHANGED <<httpVars, stageVars, extVars>>

\* `if self.__hasShutdownRequest.is_set(): break` then `if ready:`
Serve_Post ==
    /\ servePc = "post"
    /\ servePc' = IF hasShutdownRequest THEN "exited"
                  ELSE IF ready THEN "handle" ELSE "actions"
    /\ UNCHANGED <<terminateEvent, hasShutdownRequest, stateLock,
                   hasServeThreadStarted, threadsStarted, ready, numAccepted,
                   socketClosed, startPc, termPc, termAtEntry, spawned>>
    /\ UNCHANGED <<httpVars, stageVars, extVars>>

\* `self._handle_request_noblock()`: accepts the pending connection and
\* processes it (in this thread, or in a new worker under ThreadingMixIn);
\* accept() on a listening socket that was closed raises OSError, which
\* _handle_request_noblock catches
Serve_Handle ==
    /\ servePc = "handle"
    /\ numAccepted' = IF socketClosed THEN numAccepted ELSE numAccepted + 1
    /\ servePc' = "actions"
    /\ UNCHANGED <<terminateEvent, hasShutdownRequest, stateLock,
                   hasServeThreadStarted, threadsStarted, ready, socketClosed,
                   startPc, termPc, termAtEntry, spawned>>
    /\ UNCHANGED <<httpVars, stageVars, extVars>>

\* `self._handle_request_noblock()` on a non-threading server whose handler is
\* BusyTCPHandler: the connection is accepted and handle() starts to run in
\* the serve thread
Serve_HandleBusy ==
    /\ servePc = "handle"
    /\ ~socketClosed
    /\ numAccepted' = numAccepted + 1
    /\ servePc' = "busy"
    /\ UNCHANGED <<terminateEvent, hasShutdownRequest, stateLock,
                   hasServeThreadStarted, threadsStarted, ready, socketClosed,
                   startPc, termPc, termAtEntry, spawned>>
    /\ UNCHANGED <<httpVars, stageVars, extVars>>

\* BusyTCPHandler.handle: `while not self.server.terminateEvent.is_set():`
\* one test of the loop condition; the handler returns when the event is set
Serve_BusyLoop ==
    /\ servePc = "busy"
    /\ servePc' = IF terminateEvent THEN "actions" ELSE "busy"
    /\ UNCHANGED <<terminateEvent, hasShutdownRequest, stateLock,
                   hasServeThreadStarted, threadsStarted, ready, numAccepted,
                   socketClosed, startPc, termPc, termAtEntry, spawned>>
    /\ UNCHANGED <<httpVars, stageVars, extVars>>

\* `self.service_actions()` and back to the loop test
Serve_Actions ==
    /\ servePc = "actions"
    /\ servePc' = "top"
    /\ UNCHANGED <<terminateEvent, hasShutdownRequest, stateLock,
                   hasServeThreadStarted, threadsStarted, ready, numAccepted,
                   socketClosed, startPc, termPc, termAtEntry, spawned>>
    /\ UNCHANGED <<httpVars, stageVars, extVars>>

\* ---- the accept loop on the listener of a TLS or HTTPS server ----

\* `self._handle_request_noblock()` -> get_request() -> ListenSocket.accept:
\* `self._sock.accept()` returns the pending connection, the certificate is
\* reloaded if it has expired, and WrapSocket starts the handshake on the
\* blocking socket, in the serve thread
TlsServe_Accept ==
    /\ servePc = "handle"
    /\ servePc' = "handshake"
    /\ UNCHANGED <<terminateEvent, hasShutdownRequest, stateLock,
                   hasServeThreadStarted, threadsStarted, ready, numAccepted,
                   socketClosed, startPc, termPc, termAtEntry, spawned>>
    /\ UNCHANGED <<httpVars, stageVars, extVars>>

\* WrapSocket(..., do_handshake_on_connect=True) waits for the client's
\* handshake records and nothing in the serve thread ends the wait: the
\* client completes the handshake and accept() returns the connection,
\* or the client's records or its disconnect make the handshake fail with
\* ssl.SSLError/OSError, which _handle_request_noblock catches
TlsServe_HandshakeDone ==
    /\ servePc = "handshake"
    /\ \E ok \in BOOLEAN :
         numAccepted' = IF ok THEN numAccepted + 1 ELSE numAccepted
    /\ servePc' = "actions"
    /\ UNCHANGED <<terminateEvent, hasShutdownRequest, stateLock,
                   hasServeThreadStarted, threadsStarted, ready, socketClosed,
                   startPc, termPc, termAtEntry, spawned>>
    /\ UNCHANGED <<httpVars, stageVars, extVars>>

\* ---- ServerBase.ServeUntilTerminate ----

\* `self._ServeForever()` in the calling thread: serve_forever registers
\* the listening socket with the selector, which raises ValueError when the
\* socket was closed already
SUT_Call ==
    /\ servePc = "none"
    /\ threadsStarted = 0
    /\ servePc' = IF socketClosed THEN "exited" ELSE "top"
    /\ UNCHANGED <<terminateEvent, hasShutdownRequest, stateLock,
                   hasServeThreadStarted, threadsStarted, ready, numAccepted,
                   socketClosed, startPc, termPc, termAtEntry, spawned>>
    /\ UNCHANGED <<httpVars, stageVars, extVars>>

-----------------------------------------------------------------------------
\* Character strings are sequences of one-character strings.

Digit == {"0", "1", "2", "3", "4", "5", "6", "7", "8", "9"}
AlphaLower == {"a", "b", "c", "d", "e", "f", "g", "h", "i", "j", "k", "l", "m",
               "n", "o", "p", "q", "r", "s", "t", "u", "v", "w", "x", "y", "z"}
AlphaUpper == {"A", "B", "C", "D", "E", "F", "G", "H", "I", "J", "K", "L", "M",
               "N", "O", "P", "Q", "R", "S", "T", "U", "V", "W", "X", "Y", "Z"}
Alpha == AlphaLower \cup AlphaUpper
AlNum == Alpha \cup Digit
HexDigit == Digit \cup {"a", "b", "c", "d", "e", "f", "A", "B", "C", "D", "E", "F"}

\* Utils/ValidChars.py
VALID_CHARS_PATH == AlNum \cup {"-", "_"}
VALID_CHARS_PATH_QUERY_SET ==
    VALID_CHARS_PATH \cup {"-", "_", "$", ".", "+", "!", "*", "'", "(", ")", ","}
                     \cup {";", "/", "?", ":", "@", "=", "&"}

AllIn(t, S) == \A i \in 1..Len(t) : t[i] \in S

\* str.split(sep) for a one-character separator
RECURSIVE SplitOn(_, _)
SplitOn(t, sep) ==
    IF \A i \in 1..Len(t) : t[i] # sep
      THEN <<t>>
      ELSE LET k == CHOOSE i \in 1..Len(t) :
                        /\ t[i] = sep
                        /\ \A j \in 1..(i - 1) : t[j] # sep
           IN  <<SubSeq(t, 1, k - 1)>> \o SplitOn(SubSeq(t, k + 1, Len(t)), sep)

DigitVal(c) ==
    CASE c = "0" -> 0 [] c = "1" -> 1 [] c = "2" -> 2 [] c = "3" -> 3
      [] c = "4" -> 4 [] c = "5" -> 5 [] c = "6" -> 6 [] c = "7" -> 7
      [] c = "8" -> 8 [] c = "9" -> 9

\* int(s) for a non-empty string of decimal digits
RECURSIVE DecValue(_)
DecValue(t) ==
    IF Len(t) = 0 THEN 0
    ELSE 10 * DecValue(SubSeq(t, 1, Len(t) - 1)) + DigitVal(t[Len(t)])

-----------------------------------------------------------------------------
\* HTTP/Utils/HostField.py

\* the optional group `(:[0-9]+)?` of the three regular expressions
IsPortGroup(t) == Len(t) >= 2 /\ t[1] = ":" /\ AllIn(SubSeq(t, 2, Len(t)), Digit)

\* one `[a-zA-Z0-9][a-zA-Z0-9-]{0,61}[a-zA-Z0-9]` label of _DOMAIN_REGEX
IsDomainLabel(t) ==
    /\ Len(t) >= 2
    /\ Len(t) <= 63
    /\ t[1] \in AlNum
    /\ t[Len(t)] \in AlNum
    /\ AllIn(t, AlNum \cup {"-"})

\* group 1 of _DOMAIN_REGEX: `(?:label\.)+[a-zA-Z]{2,}`
DomainMain(t) ==
    LET parts == SplitOn(t, ".")
        n == Len(parts)
    IN  /\ n >= 2
        /\ \A i \in 1..(n - 1) : IsDomainLabel(parts[i])
        /\ Len(parts[n]) >= 2
        /\ AllIn(parts[n], Alpha)

\* group 1 of _IPV4_REGEX: `[0-9]+\.[0-9]+\.[0-9]+\.[0-9]+`
IPv4Main(t) ==
    LET parts == SplitOn(t, ".")
    IN  /\ Len(parts) = 4
        /\ \A i \in 1..4 : Len(parts[i]) >= 1 /\ AllIn(parts[i], Digit)

\* _IPV6_REGEX up to the port group: `\[([0-9a-fA-F:]+)\]`
IPv6Main(t) ==
    /\ Len(t) >= 3
    /\ t[1] = "["
    /\ t[Len(t)] = "]"
    /\ AllIn(SubSeq(t, 2, Len(t) - 1), HexDigit \cup {":"})

\* where `regex.match(host)` splits host into group 1 and group 2: the length
\* of the part before the port group, or -1 when the regex does not match
MatchSplit(Main(_), host) ==
    LET ks == {k \in 0..Len(host) :
                  /\ Main(SubSeq(host, 1, k))
                  /\ (k = Len(host) \/ IsPortGroup(SubSeq(host, k + 1, Len(host))))}
    IN  IF ks = {} THEN -1 ELSE CHOOSE k \in ks : \A j \in ks : j <= k

\* _DeterminePortNum
_DeterminePortNum(host, k, defaultPort) ==
    IF k < Len(host) THEN DecValue(SubSeq(host, k + 2, Len(host))) ELSE defaultPort

\* ipaddress.IPv4Address(str): four decimal octets of at most three digits,
\* without leading zeros, each at most 255
IPv4AddressValid(t) ==
    LET parts == SplitOn(t, ".")
    IN  /\ Len(parts) = 4
        /\ \A i \in 1..4 :
              /\ Len(parts[i]) \in 1..3
              /\ AllIn(parts[i], Digit)
              /\ (Len(parts[i]) > 1 => parts[i][1] # "0")
              /\ DecValue(parts[i]) <= 255

\* ipaddress.IPv6Address(str) for a string of hex digits and colons
\* (IPv6Address._ip_int_from_string without the dotted-quad tail)
IPv6AddressValid(t) ==
    LET parts == SplitOn(t, ":")
        n == Len(parts)
        skips == {i \in 2..(n - 1) : parts[i] = <<>>}
        hextetsOk == \A i \in 1..n :
                        parts[i] # <<>> => Len(parts[i]) <= 4 /\ AllIn(parts[i], HexDigit)
    IN  /\ n >= 3
        /\ n <= 9
        /\ Cardinality(skips) <= 1
        /\ IF skips # {}
             THEN LET sk == CHOOSE i \in skips : TRUE
                      hi == (sk - 1) - (IF parts[1] = <<>> THEN 1 ELSE 0)
                      lo == (n - sk) - (IF parts[n] = <<>> THEN 1 ELSE 0)
                  IN  /\ parts[1] = <<>> => hi = 0
                      /\ parts[n] = <<>> => lo = 0
                      /\ 8 - (hi + lo) >= 1
             ELSE /\ n = 8
                  /\ parts[1] # <<>>
                  /\ parts[n] # <<>>
        /\ hextetsOk

\* ParseHostField: the parsed host field, or kind "ERROR" where the code
\* raises ValueError (no regex matches, or ipaddress rejects the address)
ParseHostField(host, defaultPort) ==
    LET kd == MatchSplit(DomainMain, host)
        k4 == MatchSplit(IPv4Main, host)
        k6 == MatchSplit(IPv6Main, host)
        err == [kind |-> "ERROR", name |-> <<>>, port |-> 0]
    IN  IF kd >= 0
          THEN [kind |-> "DOMAIN", name |-> SubSeq(host, 1, kd),
                port |-> _DeterminePortNum(host, kd, defaultPort)]
        ELSE IF k4 >= 0
          THEN IF IPv4AddressValid(SubSeq(host, 1, k4))
                 THEN [kind |-> "IPV4", name |-> SubSeq(host, 1, k4),
                       port |-> _DeterminePortNum(host, k4, defaultPort)]
                 ELSE err
        ELSE IF k6 >= 0
          THEN IF IPv6AddressValid(SubSeq(host, 2, k6 - 1))
                 THEN [kind |-> "IPV6", name |-> SubSeq(host, 2, k6 - 1),
                       port |-> _DeterminePortNum(host, k6, defaultPort)]
                 ELSE err
        ELSE err


-----------------------------------------------------------------------------
\* One call of ParseHostField

\* no call has returned yet
NotParsed == [kind |-> "NONE", name |-> <<>>, port |-> 0]

\* the part of a Host value before the optional port
HostMainSamples ==
    { <<"a", "b", ".", "c", "d">>,                      \* ab.cd
      <<"1", ".", "2", ".", "3", ".", "4">>,            \* 1.2.3.4
      <<"[", ":", ":", "1", "]">>,                      \* [::1]
      <<"l", "o", "c", "a", "l", "h", "o", "s", "t">>,  \* localhost
      <<"9", "9", "9", ".", "2", ".", "3", ".", "4">> } \* 999.2.3.4

\* what follows it: nothing, or a colon and a port
HostPortSamples ==
    { <<>>,
      <<":", "0">>,
      <<":", "1">>,
      <<":", "8", "0">>,
      <<":", "6", "5", "5", "3", "5">>,
      <<":", "6", "5", "5", "3", "6">>,
      <<":">>,
      <<":", "x">> }

HostFieldInputs == {m \o p : m \in HostMainSamples, p \in HostPortSamples}

\* server_address[1] of a bound listener
ListeningPortSamples == {1, 80, 8080, 65535}

HostFieldIdle ==
    /\ hfHost = <<>>
    /\ hfDefaultPort = 0
    /\ hfResult = NotParsed

HostFieldCalled ==
    /\ hfHost \in HostFieldInputs
    /\ hfDefaultPort \in ListeningPortSamples
    /\ hfResult = NotParsed

\* the call returns or raises
HF_ParseHostField ==
    /\ hfHost # <<>>
    /\ hfResult = NotParsed
    /\ hfResult' = ParseHostField(hfHost, hfDefaultPort)
    /\ UNCHANGED <<hfHost, hfDefaultPort>>
    /\ UNCHANGED <<lifeVars, httpVars, stageVars, hsVars, listenVars, blockVars,
                   readVars>>

-----------------------------------------------------------------------------
\* Server/Utils/HandlerState.py

NumWorkers == 2         \* connection workers using the server's HandlerState

Workers == 1..NumWorkers

StateKeys == {"k1", "k2"}
StateValues == {"v1", "v2"}
Missing == "<missing>"      \* the key is not in the dict
KeyError == "<KeyError>"    \* self._store[key] raised KeyError
NoResult == "<none>"        \* the call has not reached its dict operation

\* the calls a worker can make
StateCalls ==
    [op : {"get"}, key : StateKeys, value : {Missing}, result : {NoResult}]
      \cup [op : {"set"}, key : StateKeys, value : StateValues, result : {NoResult}]

NoStateCall == [op |-> "none", key |-> "", value |-> Missing, result |-> NoResult]

\* HandlerState.__init__: an empty dict and a free lock.  No worker has
\* called anything.
HandlerStateIdle ==
    /\ hsStore = [k \in StateKeys |-> Missing]
    /\ hsLock = 0
    /\ hsPc = [w \in Workers |-> "idle"]
    /\ hsCall = [w \in Workers |-> NoStateCall]
    /\ hsCompleted = [k \in StateKeys |-> Missing]

\* a worker calls handlerState[key] or handlerState[key] = value
HS_Call(w) ==
    /\ hsPc[w] = "idle"
    /\ \E c \in StateCalls : hsCall' = [hsCall EXCEPT ![w] = c]
    /\ hsPc' = [hsPc EXCEPT ![w] = "lock"]
    /\ UNCHANGED <<hsStore, hsLock, hsCompleted>>
    /\ UNCHANGED <<lifeVars, httpVars, stageVars, hostVars, listenVars, blockVars,
                   readVars>>

\* The same step without waiting for the lock to be free
HS_AcquireNoWait(w) ==
    /\ hsPc[w] = "lock"
    /\ hsLock' = w
    /\ hsPc' = [hsPc EXCEPT ![w] = "locked"]
    /\ UNCHANGED <<hsStore, hsCall, hsCompleted>>
    /\ UNCHANGED <<lifeVars, httpVars, stageVars, hostVars, listenVars, blockVars,
                   readVars>>

\* `with self._lock:` entered
HS_Acquire(w) ==
    /\ hsPc[w] = "lock"
    /\ hsLock = 0
    /\ hsLock' = w
    /\ hsPc' = [hsPc EXCEPT ![w] = "locked"]
    /\ UNCHANGED <<hsStore, hsCall, hsCompleted>>
    /\ UNCHANGED <<lifeVars, httpVars, stageVars, hostVars, listenVars, blockVars,
                   readVars>>

\* __getitem__: `return self._store[key]`, KeyError if the key is missing
HS_GetItem(w) ==
    /\ hsPc[w] = "locked"
    /\ hsCall[w].op = "get"
    /\ hsCall' = [hsCall EXCEPT ![w].result =
                    IF hsStore[hsCall[w].key] = Missing
                      THEN KeyError
                      ELSE hsStore[hsCall[w].key]]
    /\ hsPc' = [hsPc EXCEPT ![w] = "unlock"]
    /\ UNCHANGED <<hsStore, hsLock, hsCompleted>>
    /\ UNCHANGED <<lifeVars, httpVars, stageVars, hostVars, listenVars, blockVars,
                   readVars>>

\* __setitem__: `self._store[key] = value`
HS_SetItem(w) ==
    /\ hsPc[w] = "locked"
    /\ hsCall[w].op = "set"
    /\ hsStore' = [hsStore EXCEPT ![hsCall[w].key] = hsCall[w].value]
    /\ hsCall' = [hsCall EXCEPT ![w].result = hsCall[w].value]
    /\ hsPc' = [hsPc EXCEPT ![w] = "unlock"]
    /\ UNCHANGED <<hsLock, hsCompleted>>
    /\ UNCHANGED <<lifeVars, httpVars, stageVars, hostVars, listenVars, blockVars,
                   readVars>>

\* the with block is left (by the return or by the KeyError) and the call
\* returns to the worker
HS_Release(w) ==
    /\ hsPc[w] = "unlock"
    /\ hsLock' = IF hsLock = w THEN 0 ELSE hsLock
    /\ hsCompleted' = IF hsCall[w].op = "set"
                        THEN [hsCompleted EXCEPT ![hsCall[w].key] = hsCall[w].value]
                        ELSE hsCompleted
    /\ hsPc' = [hsPc EXCEPT ![w] = "idle"]
    /\ UNCHANGED <<hsStore, hsCall>>
    /\ UNCHANGED <<lifeVars, httpVars, stageVars, hostVars, listenVars, blockVars,
                   readVars>>

WorkerCallStep(w) ==
    \/ HS_Call(w)
    \/ HS_Acquire(w)
    \/ HS_GetItem(w)
    \/ HS_SetItem(w)
    \/ HS_Release(w)

HandlerStateNext == \E w \in Workers : WorkerCallStep(w)

-----------------------------------------------------------------------------
\* Server/TLS/ListenSocket.py and TLS/SSLContext.py; times are in days

MaxDays == 3            \* last value of datetime.now()
MinDateTime == 0        \* SSLContext.__init__: _expiresAt before any load
DefaultAdjustment == 1  \* HasCertExpired: adjustment = timedelta(days=1)

\* not_valid_after_utc of the server certificates the operator may install
NotAfterSamples == 1..(MaxDays + 2)

\* The files at _certChainPath/_privKeyPath: a certificate chain and its key,
\* or files that cannot be read or parsed
NoFiles == [readable |-> FALSE, notAfter |-> MinDateTime]
DiskStates == {NoFiles} \cup [readable : {TRUE}, notAfter : NotAfterSamples]

\* What the current accept() call has done; earlierRaised: history, an
\* accept() before it ended with an exception
NoAccept == [reloaded |-> FALSE, stillExpired |-> FALSE, handshake |-> FALSE,
             raised |-> FALSE, earlierRaised |-> FALSE]

\* SSLContext.__init__: nothing loaded
ListenIdle ==
    /\ lsNow = 0
    /\ lsPc = "listen"
    /\ lsPathSet = FALSE
    /\ lsExpiresAt = MinDateTime
    /\ lsDisk = NoFiles
    /\ lsAccept = NoAccept

\* The listener of a TLS server: LoadCertChainFiles has loaded a certificate
\* chain from files, or nothing was ever loaded
ListenStarted ==
    /\ lsNow = 0
    /\ lsPc = "listen"
    /\ lsPathSet \in BOOLEAN
    /\ lsDisk \in DiskStates
    /\ IF lsPathSet
         THEN lsDisk.readable /\ lsExpiresAt = lsDisk.notAfter
         ELSE lsDisk = NoFiles /\ lsExpiresAt = MinDateTime
    /\ lsAccept = NoAccept

\* HasCertExpired without the adjustment
HasCertExpiredNoMargin(adjustment) == lsNow > lsExpiresAt

\* SSLContext.HasCertExpired
HasCertExpired(adjustment) == lsNow > lsExpiresAt - adjustment

\* a day passes
L_Tick ==
    /\ lsNow < MaxDays
    /\ lsNow' = lsNow + 1
    /\ UNCHANGED <<lsPc, lsPathSet, lsExpiresAt, lsDisk, lsAccept>>
    /\ UNCHANGED <<lifeVars, httpVars, stageVars, hostVars, hsVars, blockVars,
                   readVars>>

\* the operator replaces or removes the files at the configured paths
L_DiskChange ==
    /\ lsPathSet
    /\ \E dsk \in DiskStates \ {lsDisk} : lsDisk' = dsk
    /\ UNCHANGED <<lsNow, lsPc, lsPathSet, lsExpiresAt, lsAccept>>
    /\ UNCHANGED <<lifeVars, httpVars, stageVars, hostVars, hsVars, blockVars,
                   readVars>>

\* accept: `sock, addr = self._sock.accept()` returns a connection
L_Accept ==
    /\ lsPc = "listen"
    /\ lsAccept' = [NoAccept EXCEPT !.earlierRaised =
                                        lsAccept.earlierRaised \/ lsAccept.raised]
    /\ lsPc' = "check"
    /\ UNCHANGED <<lsNow, lsPathSet, lsExpiresAt, lsDisk>>
    /\ UNCHANGED <<lifeVars, httpVars, stageVars, hostVars, hsVars, blockVars,
                   readVars>>

\* ReloadCertChainFilesIfExpired: `if self._certChainPath is None: return
\* False`, then `if self.HasCertExpired():`
L_CheckExpired ==
    /\ lsPc = "check"
    /\ lsPc' = IF lsPathSet /\ HasCertExpired(DefaultAdjustment)
                 THEN "reload" ELSE "wrap"
    /\ UNCHANGED <<lsNow, lsPathSet, lsExpiresAt, lsDisk, lsAccept>>
    /\ UNCHANGED <<lifeVars, httpVars, stageVars, hostVars, hsVars, blockVars,
                   readVars>>

\* LoadCertChainFiles with the stored paths: _LoadCertInfo sets _expiresAt
\* from the first certificate of the file (or logs that it cannot read it),
\* then load_cert_chain loads chain and key, or raises ssl.SSLError/OSError
\* out of accept(), which socketserver's _handle_request_noblock catches
L_Reload ==
    /\ lsPc = "reload"
    /\ IF lsDisk.readable
         THEN /\ lsExpiresAt' = lsDisk.notAfter
              /\ lsAccept' = [lsAccept EXCEPT !.reloaded = TRUE]
              /\ lsPc' = "recheck"
         ELSE /\ lsExpiresAt' = lsExpiresAt
              /\ lsAccept' = [lsAccept EXCEPT !.raised = TRUE]
              /\ lsPc' = "listen"
    /\ UNCHANGED <<lsNow, lsPathSet, lsDisk>>
    /\ UNCHANGED <<lifeVars, httpVars, stageVars, hostVars, hsVars, blockVars,
                   readVars>>

\* the second `if self.HasCertExpired():` only logs and picks the return
\* value, which accept() ignores
L_Recheck ==
    /\ lsPc = "recheck"
    /\ lsAccept' = [lsAccept EXCEPT !.stillExpired = HasCertExpired(DefaultAdjustment)]
    /\ lsPc' = "wrap"
    /\ UNCHANGED <<lsNow, lsPathSet, lsExpiresAt, lsDisk>>
    /\ UNCHANGED <<lifeVars, httpVars, stageVars, hostVars, hsVars, blockVars,
                   readVars>>

\* The handshake with its failure ending serve_forever
L_HandshakeFatal ==
    /\ lsPc = "wrap"
    /\ \E ok \in BOOLEAN :
         /\ lsAccept' = [lsAccept EXCEPT !.handshake = TRUE, !.raised = ~ok]
         /\ lsPc' = IF ok THEN "listen" ELSE "exited"
    /\ UNCHANGED <<lsNow, lsPathSet, lsExpiresAt, lsDisk>>
    /\ UNCHANGED <<lifeVars, httpVars, stageVars, hostVars, hsVars, blockVars,
                   readVars>>

\* WrapSocket(sock, server_side=True, do_handshake_on_connect=True): the
\* handshake runs; it completes and accept() returns the connection, or it
\* fails with ssl.SSLError (an OSError), which _handle_request_noblock catches
L_Handshake ==
    /\ lsPc = "wrap"
    /\ \E ok \in BOOLEAN :
         lsAccept' = [lsAccept EXCEPT !.handshake = TRUE, !.raised = ~ok]
    /\ lsPc' = "listen"
    /\ UNCHANGED <<lsNow, lsPathSet, lsExpiresAt, lsDisk>>
    /\ UNCHANGED <<lifeVars, httpVars, stageVars, hostVars, hsVars, blockVars,
                   readVars>>

\* the steps of one accept() call after the connection has arrived
AcceptStep ==
    \/ L_CheckExpired
    \/ L_Reload
    \/ L_Recheck
    \/ L_Handshake

ListenNext ==
    \/ L_Tick
    \/ L_DiskChange
    \/ L_Accept
    \/ AcceptStep

-----------------------------------------------------------------------------
\* Bounds and inputs of the HTTP model
MaxStages == 1          \* stages between the Pre-Handler and the business handler
MaxRequests == 2        \* requests a client sends on one connection

Absent == "<absent>"    \* headers.get(name, None) found no such header
Unset == "<unset>"      \* the attribute _respBody was never assigned
NoBody == "<None>"      \* _respBody is None

ServerPort == 8080      \* self.server.server_address[1]

Commands == {"GET", "PUT"}
\* HTTP/ServerBase.py: the default of enabledCommands
DefaultEnabledCommands == {"GET", "POST"}

HostSamples ==
    { <<"a", "b", ".", "c", "d">>,                      \* ab.cd
      <<"[", ":", ":", "1", "]", ":", "8", "0">>,       \* [::1]:80
      <<"l", "o", "c", "a", "l", "h", "o", "s", "t">>,  \* localhost
      <<"9", "9", "9", ".", "2", ".", "3", ".", "4">> } \* 999.2.3.4

PathSamples ==
    { <<"/">>,
      <<"/", "a", "?", "k", "=", "1">>,                 \* /a?k=1
      <<"/", "a", "%", "2", "0">> }                     \* /a%20

ConnectionSamples == {Absent, "keep-alive", "Keep-Alive", "close"}

Requests ==
    [command : Commands,
     host : {<<Absent>>} \cup HostSamples,
     path : PathSamples,
     conn : ConnectionSamples]

NoRequest == [command |-> "", host |-> <<Absent>>, path |-> <<>>, conn |-> Absent]

\* str.lower() on the header names and values that occur
Lower(v) ==
    CASE v = "Keep-Alive" -> "keep-alive"
      [] v = "Connection" -> "connection"
      [] v = "Content-Length" -> "content-length"
      [] v = "Content-Type" -> "content-type"
      [] OTHER -> v

\* len(message.encode('utf-8')) of the text bodies that occur
BodyLen(b) ==
    CASE b = "OK" -> 2
      [] b = "Forbidden" -> 9
      [] b = "Not Found" -> 9
      [] b = "Internal server error" -> 21
      [] OTHER -> 0

StageKinds == {"RateLimiter", "IPNetwork", "ConcurrentLimiter", "TLS",
               "HandlerByPath", "BlockByRate"}

Chains == UNION {[1..n -> StageKinds] : n \in 0..MaxStages}

\* What each stage's HandleRequest can do with a call that reaches it from the
\* Pre-Handler or from another stage; every caller passes host, relPath,
\* pyHandler, handlerState, reqState and terminateEvent by keyword.

\* Auth/RateLimiter.py: over the limit -> 403, else forward
RateLimiter_Outcomes == {"forward", "reject"}

\* Auth/IPNetwork.py: no allowing network matches -> 403, else forward
IPNetwork_Outcomes == {"forward", "reject"}

\* HTTPS/Auth/TLS.py: no or invalid peer certificate chain -> 403, else forward
TLS_Outcomes == {"forward", "reject"}

\* HandlerByPath/Utils.py: unknown path or method -> 404, else forward
HandlerByPath_Outcomes == {"forward", "reject"}

\* Auth/ConcurrentLimiter.py: HandleRequest declares the parameter `state`
\* and neither `handlerState` nor `reqState`, so the call raises TypeError
\* before the body runs
ConcurrentLimiter_Outcomes == {"raise"}

\* Utils/DownstreamHandlerBlockByRate.py: the HTTP Pre-Handler passes
\* reqState = {}, so reqState.get('clientIP') is None and the stage returns
\* without setting a response and without forwarding
BlockByRate_Outcomes == {"drop"}

StageOutcomes(kind) ==
    CASE kind = "RateLimiter" -> RateLimiter_Outcomes
      [] kind = "IPNetwork" -> IPNetwork_Outcomes
      [] kind = "TLS" -> TLS_Outcomes
      [] kind = "HandlerByPath" -> HandlerByPath_Outcomes
      [] kind = "ConcurrentLimiter" -> ConcurrentLimiter_Outcomes
      [] kind = "BlockByRate" -> BlockByRate_Outcomes

\* The rejection a stage sets with SetCodeAndTextMessage
RejectCode(kind) == IF kind = "HandlerByPath" THEN 404 ELSE 403
RejectBody(kind) == IF kind = "HandlerByPath" THEN "Not Found" ELSE "Forbidden"

\* A stage that swallowed every exception raised below it
StagePropagatesNever(kind) == FALSE

\* Whether an exception raised below the stage leaves the stage again: no
\* stage wraps its downstream call in an except clause (ConcurrentLimiter
\* uses try/finally, which re-raises).
StagePropagates(kind) == TRUE

\* What a business handler does with pyHandler, in this order: set a text
\* response or only a status code, call AllowKeepAlive(), call DoResponse()
\* itself, raise.
HandlerBehaviours ==
    [sets : {"text", "status"}, allowKA : BOOLEAN, sendsSelf : BOOLEAN,
     raises : BOOLEAN]

-----------------------------------------------------------------------------
\* HTTP/PyHandlerBase.py: the response state of the handler object
\*   statusCode, body, headers: _statusCode, _respBody, _respHeaders
\*   sent: _wasResponseSent;  close: close_connection
\*   written: responses written to wfile for the current request
\*   last: the status code and body of the last response written
\*   lastHeaders: the header lines DoResponse wrote with it

NoResponse == [code |-> 0, body |-> NoBody, via |-> ""]

FreshHandler ==
    [statusCode |-> 500, body |-> Unset, headers |-> <<>>, sent |-> FALSE,
     close |-> TRUE, written |-> 0, last |-> NoResponse, lastHeaders |-> <<>>,
     query |-> <<Absent>>]

\* PyHandlerBase.AddResponseHeader
AddResponseHeader(h, key, value) ==
    IF \E i \in 1..Len(h.headers) : h.headers[i].key = key
      THEN [h EXCEPT !.headers =
              [i \in 1..Len(h.headers) |->
                 IF h.headers[i].key = key
                   THEN [key |-> key, values |-> Append(h.headers[i].values, value)]
                   ELSE h.headers[i]]]
      ELSE [h EXCEPT !.headers = Append(@, [key |-> key, values |-> <<value>>])]

\* PyHandlerBase.SetStatusCode
SetStatusCode(h, code) == [h EXCEPT !.statusCode = code]

\* PyHandlerBase.SetCodeAndTextMessage
SetCodeAndTextMessage(h, code, message) ==
    AddResponseHeader(
        AddResponseHeader(
            [SetStatusCode(h, code) EXCEPT !.body = message],
            "Content-Length", ToString(BodyLen(message))),
        "Content-Type", "text/plain")

\* PyHandlerBase.ResetResponse
ResetResponse(h) ==
    [h EXCEPT !.headers = <<>>, !.body = NoBody, !.statusCode = 500, !.sent = FALSE]

\* PyHandlerBase.GetRequestKeepAlive
GetRequestKeepAlive(r) ==
    IF r.conn = Absent THEN FALSE ELSE Lower(r.conn) = "keep-alive"

\* AllowKeepAlive without the test of the request header
AllowKeepAliveAlways(h, r) == AddResponseHeader(h, "Connection", "keep-alive")

\* PyHandlerBase.AllowKeepAlive
AllowKeepAlive(h, r) ==
    IF GetRequestKeepAlive(r)
      THEN AddResponseHeader(h, "Connection", "keep-alive")
      ELSE h

\* BaseHTTPRequestHandler.send_header, applied by DoResponse to every value
\* of every header in turn: a Connection header sets close_connection
RECURSIVE CloseAfterValues(_, _, _)
CloseAfterValues(key, values, close) ==
    IF values = <<>> THEN close
    ELSE CloseAfterValues(key, Tail(values),
            IF Lower(key) = "connection"
              THEN IF Lower(Head(values)) = "close" THEN TRUE
                   ELSE IF Lower(Head(values)) = "keep-alive" THEN FALSE
                   ELSE close
              ELSE close)

RECURSIVE CloseAfterHeaders(_, _)
CloseAfterHeaders(headers, close) ==
    IF headers = <<>> THEN close
    ELSE CloseAfterHeaders(Tail(headers),
            CloseAfterValues(Head(headers).key, Head(headers).values, close))

\* PyHandlerBase.DoResponse reads self._respBody before it writes anything:
\* an attribute that was never assigned raises AttributeError
DoResponseRaises(h) == h.body = Unset

\* PyHandlerBase.DoResponse when it does not raise
DoResponse(h) ==
    [h EXCEPT !.sent = TRUE,
              !.written = @ + 1,
              !.last = [code |-> h.statusCode, body |-> h.body, via |-> "DoResponse"],
              !.lastHeaders = h.headers,
              !.close = CloseAfterHeaders(h.headers, h.close)]

\* BaseHTTPRequestHandler.send_error(code, 'Bad request'): writes a complete
\* HTML error response with `Connection: close`
send_error(h, code) ==
    [h EXCEPT !.written = @ + 1,
              !.last = [code |-> code, body |-> "<html>", via |-> "send_error"],
              !.lastHeaders = <<>>,
              !.close = TRUE]

-----------------------------------------------------------------------------
\* The call chain below PreHandler._HandleOneRequest

\* The business handler (see HandlerBehaviours)
RunBusiness(hb, r, h0) ==
    LET h1 == IF hb.sets = "text" THEN SetCodeAndTextMessage(h0, 200, "OK")
              ELSE SetStatusCode(h0, 204)
        h2 == IF hb.allowKA THEN AllowKeepAlive(h1, r) ELSE h1
        sendFails == hb.sendsSelf /\ DoResponseRaises(h2)
        h3 == IF hb.sendsSelf /\ ~sendFails THEN DoResponse(h2) ELSE h2
    IN  [h |-> h3, raised |-> (hb.raises \/ sendFails), invoked |-> TRUE,
         handlerRaised |-> (hb.raises \/ sendFails)]

\* <stage>.HandleRequest for stage i of the chain, with the stages' decisions
\* given by outs
RECURSIVE RunChain(_, _, _, _, _, _)
RunChain(ch, outs, hb, r, i, h0) ==
    IF i > Len(ch) THEN RunBusiness(hb, r, h0)
    ELSE CASE outs[i] = "reject" ->
                [h |-> SetCodeAndTextMessage(h0, RejectCode(ch[i]), RejectBody(ch[i])),
                 raised |-> FALSE, invoked |-> FALSE, handlerRaised |-> FALSE]
           [] outs[i] = "drop" ->
                [h |-> h0, raised |-> FALSE, invoked |-> FALSE, handlerRaised |-> FALSE]
           [] outs[i] = "raise" ->
                [h |-> h0, raised |-> TRUE, invoked |-> FALSE, handlerRaised |-> FALSE]
           [] OTHER ->
                LET below == RunChain(ch, outs, hb, r, i + 1, h0)
                IN  IF below.raised /\ ~StagePropagates(ch[i])
                      THEN [below EXCEPT !.raised = FALSE]
                      ELSE below

\* PreHandler._HasInvalidCharInPath
_HasInvalidCharInPath(path) == \E i \in 1..Len(path) : path[i] \notin VALID_CHARS_PATH_QUERY_SET

\* urllib3.util.parse_url(self.path) for a request-target that starts with
\* one "/": the path is the part before the first "?", the query the rest
ParsedPath(path) ==
    IF \E i \in 1..Len(path) : path[i] = "?"
      THEN LET k == CHOOSE i \in 1..Len(path) :
                        path[i] = "?" /\ \A j \in 1..(i - 1) : path[j] # "?"
           IN  [path |-> SubSeq(path, 1, k - 1), query |-> SubSeq(path, k + 1, Len(path))]
      ELSE [path |-> path, query |-> <<Absent>>]


-----------------------------------------------------------------------------
\* HTTP/PreHandler.py: the worker of one accepted connection

\* What the business handler did during the current request
NoCall == [ran |-> FALSE, raised |-> FALSE, allowKA |-> FALSE, sent |-> FALSE]

\* handle(), entry: close_connection = True, then the first handle_one_request()
WorkerStart ==
    /\ wpc = "read"
    /\ req = NoRequest
    /\ reqIdx = 0
    /\ py = FreshHandler
    /\ rootInvoked = FALSE
    /\ handlerRan = NoCall
    /\ excCaught = FALSE

\* handle_one_request(): _RFileReadline returned b'' (the termination event
\* is set, the client sent nothing for 2 s, or the read failed)
Worker_ReadEmpty ==
    /\ wpc = "read"
    /\ py' = [py EXCEPT !.close = TRUE]
    /\ wpc' = "closed"
    /\ UNCHANGED <<enabledCommands, chain, req, reqIdx, rootInvoked, handlerRan,
                   excCaught>>
    /\ UNCHANGED <<lifeVars, stageVars, extVars>>

\* handle_one_request(): a request line arrived before the termination event
\* was set and parse_request() accepted it; the server speaks HTTP/1.0
\* (protocol_version is not overridden), so parse_request() leaves
\* close_connection = True whatever the request's Connection header says
Worker_ReadRequest ==
    /\ wpc = "read"
    /\ ~terminateEvent
    /\ reqIdx < MaxRequests
    /\ \E r \in Requests : req' = r
    /\ reqIdx' = reqIdx + 1
    /\ py' = [py EXCEPT !.close = TRUE, !.written = 0]
    /\ rootInvoked' = FALSE
    /\ handlerRan' = NoCall
    /\ excCaught' = FALSE
    /\ wpc' = "validate"
    /\ UNCHANGED <<enabledCommands, chain>>
    /\ UNCHANGED <<lifeVars, stageVars, extVars>>

\* _HandleOneRequest(), the checks before the try block.  ParseHostField is
\* called outside the try block: its ValueError leaves _HandleOneRequest,
\* handle_one_request (which catches TimeoutError only) and handle()
Worker_Validate ==
    /\ wpc = "validate"
    /\ IF req.command \notin enabledCommands
         THEN py' = send_error(py, 400) /\ wpc' = "loop"
       ELSE IF req.host = <<Absent>>
         THEN py' = send_error(py, 400) /\ wpc' = "loop"
       ELSE IF ParseHostField(req.host, ServerPort).kind = "ERROR"
         THEN py' = py /\ wpc' = "crashed"
       ELSE IF _HasInvalidCharInPath(req.path)
         THEN py' = send_error(py, 400) /\ wpc' = "loop"
       ELSE py' = py /\ wpc' = "dispatch"
    /\ UNCHANGED <<enabledCommands, chain, req, reqIdx, rootInvoked, handlerRan,
                   excCaught>>
    /\ UNCHANGED <<lifeVars, stageVars, extVars>>

\* The decisions the stages of the chain can take
StageDecisions == {o \in [1..Len(chain) -> {"forward", "reject", "drop", "raise"}] :
                      \A i \in 1..Len(chain) : o[i] \in StageOutcomes(chain[i])}

\* _HandleOneRequest(), the try block and its except clause
Worker_Dispatch ==
    /\ wpc = "dispatch"
    /\ \E outs \in StageDecisions, hb \in HandlerBehaviours :
         LET parsed == ParsedPath(req.path)
             h0 == [py EXCEPT !.query = parsed.query]
             res == RunChain(chain, outs, hb, req, 1, h0)
         IN  /\ py' = IF res.raised
                        THEN SetCodeAndTextMessage(res.h, 500, "Internal server error")
                        ELSE res.h
             /\ handlerRan' = [ran |-> res.invoked, raised |-> res.handlerRaised,
                               allowKA |-> res.invoked /\ hb.allowKA,
                               sent |-> res.h.sent]
             /\ excCaught' = res.raised
    /\ rootInvoked' = TRUE
    /\ wpc' = "respond"
    /\ UNCHANGED <<enabledCommands, chain, req, reqIdx>>
    /\ UNCHANGED <<lifeVars, stageVars, extVars>>

\* _HandleOneRequest(), "send the response"; DoResponse is outside the try
\* block, so its AttributeError leaves handle()
Worker_Respond ==
    /\ wpc = "respond"
    /\ IF ~terminateEvent /\ ~py.sent
         THEN IF DoResponseRaises(py)
                THEN py' = py /\ wpc' = "crashed"
                ELSE py' = DoResponse(py) /\ wpc' = "loop"
         ELSE py' = py /\ wpc' = "loop"
    /\ UNCHANGED <<enabledCommands, chain, req, reqIdx, rootInvoked, handlerRan,
                   excCaught>>
    /\ UNCHANGED <<lifeVars, stageVars, extVars>>

\* handle(): `while not self.close_connection: ResetResponse(); ...`
Worker_Loop ==
    /\ wpc = "loop"
    /\ IF py.close
         THEN py' = py /\ wpc' = "closed"
         ELSE py' = ResetResponse(py) /\ wpc' = "read"
    /\ UNCHANGED <<enabledCommands, chain, req, reqIdx, rootInvoked, handlerRan,
                   excCaught>>
    /\ UNCHANGED <<lifeVars, stageVars, extVars>>


-----------------------------------------------------------------------------
\* HTTP/HandlerByPath/Utils.py: routing by path

\* _IdxOfNextSplitPoint(path, startIdx): the 0-based index of the first
\* character at or after startIdx that is not in VALID_CHARS_PATH, or
\* len(path)
RECURSIVE _IdxOfNextSplitPoint(_, _)
_IdxOfNextSplitPoint(path, startIdx) ==
    IF startIdx >= Len(path) THEN Len(path)
    ELSE IF path[startIdx + 1] \notin VALID_CHARS_PATH THEN startIdx
    ELSE _IdxOfNextSplitPoint(path, startIdx + 1)

\* A split at the next '/' instead of the next character outside
\* VALID_CHARS_PATH
_SplitAtNextSlash(path) ==
    IF path = <<>>
      THEN [ok |-> TRUE, this |-> <<>>, next |-> <<>>]
    ELSE IF path[1] = "/"
      THEN LET slashes == {i \in 2..Len(path) : path[i] = "/"}
               endIdx == IF slashes = {} THEN Len(path)
                         ELSE (CHOOSE i \in slashes : \A j \in slashes : i <= j) - 1
           IN  [ok |-> TRUE,
                this |-> SubSeq(path, 1, endIdx),
                next |-> SubSeq(path, endIdx + 1, Len(path))]
    ELSE [ok |-> FALSE, this |-> <<>>, next |-> <<>>]

\* _SplitThisAndNextLevelPath(path); ok = FALSE stands for InvalidPathError
_SplitThisAndNextLevelPath(path) ==
    IF path = <<>>
      THEN [ok |-> TRUE, this |-> <<>>, next |-> <<>>]
    ELSE IF path[1] = "/"
      THEN LET endIdx == _IdxOfNextSplitPoint(path, 1)
           IN  [ok |-> TRUE,
                this |-> SubSeq(path, 1, endIdx),
                next |-> SubSeq(path, endIdx + 1, Len(path))]
    ELSE [ok |-> FALSE, this |-> <<>>, next |-> <<>>]

\* Handlers of the chain shape:
\*   [kind |-> "Func", name]       a business handler function
\*   [kind |-> "EndPoint", inner]  EndPointHandler(inner)
\*   [kind |-> "Map", map]         HandlerByPathMap(map), map: path -> method -> handler
Func(name) == [kind |-> "Func", name |-> name]
EndPointHandler(handler) == [kind |-> "EndPoint", inner |-> handler]
HandlerByPathMap(pathMap) == [kind |-> "Map", map |-> pathMap]

\* The outcome of calling a handler: the rejection it set (code 0: none) and
\* the calls made on the way down, outermost first, each with the handler
\* called and the relPath it was given; `business` is the business function
\* reached, if any
NotFound(calls) ==
    [code |-> 404, body |-> "Not Found", calls |-> calls, business |-> ""]

\* The None that dict.get returns
NoHandler == [kind |-> "None"]

\* A lookup that ignores the request method
_LookupAnyMethod(pathMap, thisLevelPath, method) ==
    IF thisLevelPath \notin DOMAIN pathMap THEN NoHandler
    ELSE pathMap[thisLevelPath][CHOOSE m \in DOMAIN pathMap[thisLevelPath] : TRUE]

\* HandlerByPathInner: pathMap.get(thisLevelPath, None), then
\* methodHdlrMap.get(method, None)
_Lookup(pathMap, thisLevelPath, method) ==
    IF thisLevelPath \notin DOMAIN pathMap THEN NoHandler
    ELSE IF method \notin DOMAIN pathMap[thisLevelPath] THEN NoHandler
    ELSE pathMap[thisLevelPath][method]

\* An end point that accepts any remaining path
_EndPointAcceptsAny(relPath) == TRUE

\* EndPointHandlerInner: if relPath == ''
_EndPointAccepts(relPath) == relPath = <<>>

\* handler(host=, relPath=, pyHandler=, ...) for a handler of the chain shape
RECURSIVE CallHandler(_, _, _, _)
CallHandler(handler, relPath, method, calls) ==
    LET here == Append(calls, [handler |-> handler, relPath |-> relPath])
    IN  CASE handler.kind = "Func" ->
               [code |-> 0, body |-> "", calls |-> here, business |-> handler.name]
          [] handler.kind = "EndPoint" ->
               \* EndPointHandlerInner
               IF _EndPointAccepts(relPath)
                 THEN CallHandler(handler.inner, relPath, method, here)
                 ELSE NotFound(here)
          [] handler.kind = "Map" ->
               \* HandlerByPathInner
               LET split == _SplitThisAndNextLevelPath(relPath)
                   next == IF split.ok
                             THEN _Lookup(handler.map, split.this, method)
                             ELSE NoHandler
               IN  IF next.kind = "None"
                     THEN NotFound(here)
                     ELSE CallHandler(next, split.next, method, here)

\* The routing map of tests/unittesting/Server/HTTP/HandlerByPath
WORLD_HANDLER ==
    HandlerByPathMap(
        (<<>> :> ("GET" :> EndPointHandler(Func("HandleHelloEmpty"))))
     @@ (<<"/">> :> ("GET" :> Func("HandleHello")))
     @@ (<<"/", "W", "o", "r", "l", "d">> :>
            ("POST" :> EndPointHandler(Func("HandleHelloWorld"))))
     @@ (<<"/", "Q", "u", "e", "r", "y">> :>
            ("GET" :> EndPointHandler(Func("HandleHelloQuery")))))

ROOT_HANDLER ==
    HandlerByPathMap(
        (<<>> :> ("GET" :> EndPointHandler(Func("HandleEmpty"))))
     @@ (<<"/">> :> ("GET" :> EndPointHandler(Func("HandleSlash"))))
     @@ (<<"/", "H", "e", "l", "l", "o">> :>
            (("GET" :> WORLD_HANDLER) @@ ("POST" :> WORLD_HANDLER)))
     @@ (<<"/", "H", "a", "l", "o">> :> ("GET" :> Func("HandleHello"))))

\* relPath values handed to the root handler
RoutePathSamples ==
    { <<>>,
      <<"/">>,
      <<"/", "H", "e", "l", "l", "o">>,
      <<"/", "H", "e", "l", "l", "o", "/">>,
      <<"/", "H", "a", "l", "o", "/", "W", "o", "r", "l", "d">>,
      <<"/", "H", "e", "l", "l", "o", "/", "W", "o", "r", "l", "d">>,
      <<"/", "H", "e", "l", "l", "o", "/", "W", "o", "r", "l", "d", "/">>,
      <<"/", "H", "e", "l", "l", "o", "/", "Q", "u", "e", "r", "y">>,
      <<"/", "H", "i">>,
      <<"/", "H", "e", "l", "l", "o", ".", "x">>,
      <<"/", "/", "a">>,
      <<"H", "i">>,
      <<"/", "a", "-", "b", "_", "1", "(", "x", ")">> }

RouteMethods == {"GET", "POST"}

-----------------------------------------------------------------------------
\* HTTP/Auth/IPNetwork.py: allow or deny by the peer's network

MaxRules == 2           \* rules in the configured list

RECURSIVE Pow2(_)
Pow2(n) == IF n = 0 THEN 1 ELSE 2 * Pow2(n - 1)

\* ipaddress.ip_address(srcIPStr): the version and the address as an integer
IPSamples ==
    { [version |-> 4, addr |-> 1],
      [version |-> 4, addr |-> 2],
      [version |-> 6, addr |-> 1] }

\* ipaddress.ip_network(...): the version, the network address and the number
\* of host bits (max_prefixlen - prefixlen); the host bits of the network
\* address are zero
NetworkSamples ==
    { [version |-> 4, base |-> 0, hostBits |-> 2],      \* addresses 0..3
      [version |-> 4, base |-> 2, hostBits |-> 1],      \* addresses 2..3
      [version |-> 6, base |-> 0, hostBits |-> 2] }     \* addresses 0..3

\* `ip in network` (_BaseNetwork.__contains__): same version and the address
\* masked with the netmask equals the network address
IPInNetwork(ip, network) ==
    /\ ip.version = network.version
    /\ (ip.addr \div Pow2(network.hostBits)) * Pow2(network.hostBits) = network.base

\* The rule lists an IPNetwork stage can be configured with
RuleSets ==
    UNION {[1..n -> [network : NetworkSamples, policy : BOOLEAN]] : n \in 0..MaxRules}

\* IPNetwork._GetPolicyByIP from rule i on, with the default of the variant
RECURSIVE _GetPolicyFrom(_, _, _, _)
_GetPolicyFrom(rules, ip, i, default) ==
    IF i > Len(rules) THEN default
    ELSE IF IPInNetwork(ip, rules[i].network) THEN rules[i].policy
    ELSE _GetPolicyFrom(rules, ip, i + 1, default)

\* _GetPolicyByIP that allows a peer no rule matches
_GetPolicyByIPDefaultAllow(rules, ip) == _GetPolicyFrom(rules, ip, 1, TRUE)

\* IPNetwork._GetPolicyByIP
_GetPolicyByIP(rules, ip) == _GetPolicyFrom(rules, ip, 1, FALSE)

-----------------------------------------------------------------------------
\* The stages, called directly: concurrent callers of one stage's
\* HandleRequest (specification StageSpec)

NumCallers == 2         \* threads calling HandleRequest concurrently
MaxPermits == 2         \* largest maxConcurrent of a ConcurrentLimiter
MaxReq == 2             \* largest maxReq of a RateLimiter
MaxTime == 3            \* last value of time.time()

Callers == 1..NumCallers

\* The stages that keep state between calls
SharedStateKinds == {"ConcurrentLimiter", "RateLimiter"}

\* timePeriodSec of a RateLimiter
TimePeriodSamples == {1, 2}

\* How HandleRequest is called: with the keyword arguments of the stage
\* contract (host, relPath, pyHandler, handlerState, reqState,
\* terminateEvent), as the Pre-Handler and every stage call it, or with the
\* keyword arguments ConcurrentLimiter.HandleRequest declares (host, relPath,
\* pyHandler, state, terminateEvent)
CallStyles == {"contract", "legacy"}

\* ---- HTTPS/Auth/TLS.py: certificates ----

MaxChainLen == 3        \* certificates in a peer's chain

\* A certificate: subject and issuer names, the public key it carries, the
\* key that made its signature, whether now is inside its validity period,
\* and whether it has a common name and a subjectAltName extension
Cert(subject, issuer, key, signer, inWindow, named) ==
    [subject |-> subject, issuer |-> issuer, key |-> key, signer |-> signer,
     inWindow |-> inWindow, named |-> named]

NoCert == Cert("", "", "", "", FALSE, FALSE)

\* isinstance(pubKey, ...): the class of a public key
KeyType(key) ==
    CASE key = "kRoot" -> "RSAPublicKey"
      [] key = "kRoot2" -> "RSAPublicKey"
      [] key = "kInt" -> "EllipticCurvePublicKey"
      [] key = "kOther" -> "Ed448PublicKey"
      [] OTHER -> "Ed25519PublicKey"

RootCA == Cert("Root", "Root", "kRoot", "kRoot", TRUE, FALSE)
Root2CA == Cert("Root2", "Root2", "kRoot2", "kRoot2", TRUE, FALSE)

\* an earlier, expired certificate of the root's key
RootOld == Cert("Root", "Root", "kRoot", "kRoot", FALSE, FALSE)
\* an intermediate CA and a client certificate it issued
IntCA == Cert("Int", "Root", "kInt", "kRoot", TRUE, FALSE)
Leaf == Cert("Leaf", "Int", "kLeaf", "kInt", TRUE, TRUE)
\* names the intermediate as issuer, signed with another key
ForgedLeaf == Cert("Evil", "Int", "kEvil", "kEvil", TRUE, TRUE)
\* issued by the intermediate, outside its validity period
ExpiredLeaf == Cert("Old", "Int", "kOld", "kInt", FALSE, TRUE)
\* issued by the intermediate without common name or subjectAltName
LeafNoName == Cert("Anon", "Int", "kAnon", "kInt", TRUE, FALSE)
\* an intermediate CA with an Ed448 key, issued by the root
IntOther == Cert("IntO", "Root", "kOther", "kRoot", TRUE, FALSE)
\* names that intermediate as issuer, signed with another key
ForgedUnderOther == Cert("Mallory", "IntO", "kMallory", "kMallory", TRUE, TRUE)
\* issued by a CA the server does not know
Stranger == Cert("Str", "Nowhere", "kStr", "kNowhere", TRUE, TRUE)

CertSamples ==
    {RootCA, RootOld, IntCA, Leaf, ForgedLeaf, ExpiredLeaf, LeafNoName,
     IntOther, ForgedUnderOther, Stranger}

\* sock.get_verified_chain() after load_der_x509_certificate: the presented
\* certificates, in any order
PeerChains ==
    UNION {{ch \in [1..n -> CertSamples] :
               \A i, j \in 1..n : i # j => ch[i] # ch[j]} : n \in 0..MaxChainLen}

\* rootCaCertPEM of the constructor
RootCaCertSamples == {<<RootCA>>, <<Root2CA, RootCA>>}

\* What TLS.HandleRequest finds on the connection
TLSPeerSamples ==
    {[kind |-> "notTLS", chain |-> <<>>], [kind |-> "loadFails", chain |-> <<>>]}
      \cup [kind : {"chain"}, chain : PeerChains]

\* list.pop(i) for the 1-based index i
Pop(l, i) == SubSeq(l, 1, i - 1) \o SubSeq(l, i + 1, Len(l))

\* TLS._FindRootCaCert with its inner _IsCaCert
_IsCaCert(certChain, trustedCert) ==
    \E i \in 1..Len(certChain) :
        \/ certChain[i].key = trustedCert.key
        \/ certChain[i].issuer = trustedCert.subject

_FindRootCaCert(certChain, trustedCerts) ==
    IF \E i \in 1..Len(trustedCerts) : _IsCaCert(certChain, trustedCerts[i])
      THEN trustedCerts[CHOOSE i \in 1..Len(trustedCerts) :
                          /\ _IsCaCert(certChain, trustedCerts[i])
                          /\ \A j \in 1..(i - 1) : ~_IsCaCert(certChain, trustedCerts[j])]
      ELSE NoCert

\* TLS._VerifyCertSignature: TRUE when the call returns, FALSE when
\* pubKey.verify raises; a key of no listed class falls through the
\* if/elif chain and the call returns
_VerifyCertSignature(pubKey, subjCert) ==
    IF KeyType(pubKey) = "Ed25519PublicKey" THEN subjCert.signer = pubKey
    ELSE IF KeyType(pubKey) = "EllipticCurvePublicKey" THEN subjCert.signer = pubKey
    ELSE IF KeyType(pubKey) = "RSAPublicKey" THEN subjCert.signer = pubKey
    ELSE TRUE

\* TLS._VerifyCertificate
_VerifyCertificate(subjCert, issuerCert) ==
    IF ~_VerifyCertSignature(issuerCert.key, subjCert) THEN FALSE
    ELSE IF ~subjCert.inWindow THEN FALSE
    ELSE TRUE

\* TLS._GetCertOfNextLevel: the loop `for revI in reversed(range(len(...)))`
\* from the 1-based index revI downwards
RECURSIVE _GetCertOfNextLevelFrom(_, _, _)
_GetCertOfNextLevelFrom(certChain, trustedCert, revI) ==
    IF revI = 0
      THEN [remaining |-> certChain, next |-> NoCert,
            err |-> "Cannot find the cert of next level."]
    ELSE IF certChain[revI].key = trustedCert.key
      THEN [remaining |-> Pop(certChain, revI), next |-> NoCert, err |-> ""]
    ELSE IF /\ certChain[revI].issuer = trustedCert.subject
            /\ _VerifyCertificate(certChain[revI], trustedCert)
      THEN [remaining |-> Pop(certChain, revI), next |-> certChain[revI], err |-> ""]
    ELSE _GetCertOfNextLevelFrom(certChain, trustedCert, revI - 1)

_GetCertOfNextLevel(certChain, trustedCert) ==
    _GetCertOfNextLevelFrom(certChain, trustedCert, Len(certChain))

\* TLS._VerifyCertChain: the while loop with verifiedChain so far
RECURSIVE _VerifyCertChainLoop(_, _, _)
_VerifyCertChainLoop(certChain, trustedCert, verifiedChain) ==
    IF Len(certChain) = 0 THEN [chain |-> verifiedChain, err |-> ""]
    ELSE LET r == _GetCertOfNextLevel(certChain, trustedCert)
         IN  IF r.err # "" THEN [chain |-> <<>>, err |-> r.err]
             ELSE IF r.next = NoCert
               THEN _VerifyCertChainLoop(r.remaining, trustedCert, verifiedChain)
             ELSE _VerifyCertChainLoop(r.remaining, r.next, <<r.next>> \o verifiedChain)

_VerifyCertChain(certChain, trustedCert) ==
    _VerifyCertChainLoop(certChain, trustedCert, <<>>)

\* reqState.get('clientIP', None) as DownstreamHandlerBlockByRate sees it
NoClientIP == [version |-> 0, addr |-> 0]

\* The stage under test with its constructor arguments
NoConfig ==
    [kind |-> "", maxConcurrent |-> 0, maxReq |-> 0, timePeriodSec |-> 0,
     ipNetworks |-> <<>>, rootCaCerts |-> <<>>]

StageConfigs ==
    {[NoConfig EXCEPT !.kind = "ConcurrentLimiter", !.maxConcurrent = n] :
        n \in 1..MaxPermits}
    \cup {[NoConfig EXCEPT !.kind = "RateLimiter", !.maxReq = n, !.timePeriodSec = p] :
        n \in 1..MaxReq, p \in TimePeriodSamples}
    \cup {[NoConfig EXCEPT !.kind = "IPNetwork", !.ipNetworks = r] : r \in RuleSets}
    \cup {[NoConfig EXCEPT !.kind = "TLS", !.rootCaCerts = r] : r \in RootCaCertSamples}
    \cup {[NoConfig EXCEPT !.kind = k] : k \in {"HandlerByPath", "BlockByRate"}}

\* What one call of HandleRequest has done so far:
\*   input: what the call was given or found (peer IP, relPath and method, ...)
\*   code, body: the rejection set with SetCodeAndTextMessage (code 0: none)
\*   forwards: calls of the next stage made
\*   calls, business: the handlers HandlerByPath invoked; for TLS, calls is
\*     the _VerifyCertChain call made, with its trust anchor and its result
\*   permit: the call holds a permit of the semaphore
\*   now: the time.time() the call read, while _CheckRateLimit runs
\*   ended: "", "returned" or "raised"
IdleCall ==
    [input |-> <<>>, code |-> 0, body |-> "", forwards |-> 0, calls |-> <<>>,
     business |-> "", permit |-> FALSE, now |-> 0, ended |-> ""]

Reject(c, code, body) ==
    [c EXCEPT !.code = code, !.body = body, !.ended = "returned"]

StageIdle ==
    /\ stageCfg = NoConfig
    /\ cpc = [c \in Callers |-> "idle"]
    /\ call = [c \in Callers |-> IdleCall]
    /\ clock = 0
    /\ semaphore = 0
    /\ reqTimes = <<>>
    /\ reqTimesLock = 0

\* The threads that call the stage: the calls of a stage that keeps no state
\* between calls share nothing, one caller stands for all of them
StageCallers == IF stageCfg.kind \in SharedStateKinds THEN Callers ELSE {1}

\* The stage after its constructor ran
StageConstructed ==
    /\ stageCfg \in StageConfigs
    /\ cpc = [c \in Callers |-> "idle"]
    /\ call = [c \in Callers |-> IdleCall]
    /\ clock = 0
    /\ semaphore = stageCfg.maxConcurrent
    /\ reqTimes = <<>>
    /\ reqTimesLock = 0

\* ---- the downstream handler of the stage ----

\* The position of the stage after its downstream call ended
AfterDownstream == IF stageCfg.kind = "ConcurrentLimiter" THEN "release" ELSE "done"

\* The downstream handler returns
Downstream_Return(c) ==
    /\ cpc[c] = "downstream"
    /\ cpc' = [cpc EXCEPT ![c] = AfterDownstream]
    /\ call' = [call EXCEPT ![c].ended = "returned"]
    /\ UNCHANGED <<stageCfg, clock, semaphore, reqTimes, reqTimesLock>>
    /\ UNCHANGED <<lifeVars, httpVars, extVars>>

\* The downstream handler raises (or the call of it does)
Downstream_Raise(c) ==
    /\ cpc[c] = "downstream"
    /\ cpc' = [cpc EXCEPT ![c] = AfterDownstream]
    /\ call' = [call EXCEPT ![c].ended = "raised"]
    /\ UNCHANGED <<stageCfg, clock, semaphore, reqTimes, reqTimesLock>>
    /\ UNCHANGED <<lifeVars, httpVars, extVars>>

\* The caller has the outcome and is ready for its next request
Caller_Next(c) ==
    /\ cpc[c] = "done"
    /\ cpc' = [cpc EXCEPT ![c] = "idle"]
    /\ call' = [call EXCEPT ![c] = IdleCall]
    /\ UNCHANGED <<stageCfg, clock, semaphore, reqTimes, reqTimesLock>>
    /\ UNCHANGED <<lifeVars, httpVars, extVars>>

\* time.time() advances
Tick ==
    /\ stageCfg.kind = "RateLimiter"
    /\ clock < MaxTime
    /\ clock' = clock + 1
    /\ UNCHANGED <<stageCfg, cpc, call, semaphore, reqTimes, reqTimesLock>>
    /\ UNCHANGED <<lifeVars, httpVars, extVars>>

\* ---- HTTP/Auth/ConcurrentLimiter.py ----

\* The call of ConcurrentLimiter.HandleRequest binds its keyword arguments:
\* the method declares `state`, so a call with handlerState and reqState
\* raises TypeError before the body runs
CL_Call(c) ==
    /\ stageCfg.kind = "ConcurrentLimiter"
    /\ cpc[c] = "idle"
    /\ \E style \in CallStyles :
        IF style = "contract"
        THEN /\ cpc' = [cpc EXCEPT ![c] = "done"]
             /\ call' = [call EXCEPT ![c].input = <<style>>, ![c].ended = "raised"]
        ELSE /\ cpc' = [cpc EXCEPT ![c] = "acquire"]
             /\ call' = [call EXCEPT ![c].input = <<style>>]
    /\ UNCHANGED <<stageCfg, clock, semaphore, reqTimes, reqTimesLock>>
    /\ UNCHANGED <<lifeVars, httpVars, extVars>>

\* acquire() that waits for a permit
CL_AcquireBlocking(c) ==
    /\ stageCfg.kind = "ConcurrentLimiter"
    /\ cpc[c] = "acquire"
    /\ semaphore > 0
    /\ semaphore' = semaphore - 1
    /\ cpc' = [cpc EXCEPT ![c] = "downstream"]
    /\ call' = [call EXCEPT ![c].permit = TRUE, ![c].forwards = @ + 1]
    /\ UNCHANGED <<stageCfg, clock, reqTimes, reqTimesLock>>
    /\ UNCHANGED <<lifeVars, httpVars, extVars>>

\* acquire(blocking=False): without a permit 403 'Forbidden' and return, with
\* one the downstream handler is called
CL_Acquire(c) ==
    /\ stageCfg.kind = "ConcurrentLimiter"
    /\ cpc[c] = "acquire"
    /\ IF semaphore > 0
       THEN /\ semaphore' = semaphore - 1
            /\ cpc' = [cpc EXCEPT ![c] = "downstream"]
            /\ call' = [call EXCEPT ![c].permit = TRUE, ![c].forwards = @ + 1]
       ELSE /\ semaphore' = semaphore
            /\ cpc' = [cpc EXCEPT ![c] = "done"]
            /\ call' = [call EXCEPT ![c] = Reject(@, 403, "Forbidden")]
    /\ UNCHANGED <<stageCfg, clock, reqTimes, reqTimesLock>>
    /\ UNCHANGED <<lifeVars, httpVars, extVars>>

\* A release that is skipped when the downstream call raised
CL_ReleaseOnReturnOnly(c) ==
    /\ cpc[c] = "release"
    /\ IF call[c].ended = "returned"
       THEN /\ semaphore' = semaphore + 1
            /\ call' = [call EXCEPT ![c].permit = FALSE]
       ELSE UNCHANGED <<semaphore, call>>
    /\ cpc' = [cpc EXCEPT ![c] = "done"]
    /\ UNCHANGED <<stageCfg, clock, reqTimes, reqTimesLock>>
    /\ UNCHANGED <<lifeVars, httpVars, extVars>>

\* finally: self._semaphore.release()
CL_Release(c) ==
    /\ cpc[c] = "release"
    /\ semaphore' = semaphore + 1
    /\ call' = [call EXCEPT ![c].permit = FALSE]
    /\ cpc' = [cpc EXCEPT ![c] = "done"]
    /\ UNCHANGED <<stageCfg, clock, reqTimes, reqTimesLock>>
    /\ UNCHANGED <<lifeVars, httpVars, extVars>>

\* ---- HTTP/Auth/RateLimiter.py ----

\* A timestamp at least as old as the period counts as expired
ExpiredOrEqual(now, t, period) == (now - t) >= period

\* (now - self._reqTimes[0]) > self._timePeriodSec
Expired(now, t, period) == (now - t) > period

\* The while loop of _CheckRateLimit: popleft() while the oldest is expired
RECURSIVE _EvictExpired(_, _, _)
_EvictExpired(times, now, period) ==
    IF times # <<>> /\ Expired(now, Head(times), period)
    THEN _EvictExpired(Tail(times), now, period)
    ELSE times

\* now = time.time(), read before the lock is taken
RL_Now(c) ==
    /\ stageCfg.kind = "RateLimiter"
    /\ cpc[c] = "idle"
    /\ cpc' = [cpc EXCEPT ![c] = "lock"]
    /\ call' = [call EXCEPT ![c].now = clock]
    /\ UNCHANGED <<stageCfg, clock, semaphore, reqTimes, reqTimesLock>>
    /\ UNCHANGED <<lifeVars, httpVars, extVars>>

\* Entering the block without waiting for the lock
RL_LockNoWait(c) ==
    /\ cpc[c] = "lock"
    /\ reqTimesLock' = c
    /\ cpc' = [cpc EXCEPT ![c] = "evict"]
    /\ UNCHANGED <<stageCfg, call, clock, semaphore, reqTimes>>
    /\ UNCHANGED <<lifeVars, httpVars, extVars>>

\* with self._reqTimesLock:
RL_Lock(c) ==
    /\ cpc[c] = "lock"
    /\ reqTimesLock = 0
    /\ reqTimesLock' = c
    /\ cpc' = [cpc EXCEPT ![c] = "evict"]
    /\ UNCHANGED <<stageCfg, call, clock, semaphore, reqTimes>>
    /\ UNCHANGED <<lifeVars, httpVars, extVars>>

\* the eviction loop
RL_Evict(c) ==
    /\ cpc[c] = "evict"
    /\ reqTimes' = _EvictExpired(reqTimes, call[c].now, stageCfg.timePeriodSec)
    /\ cpc' = [cpc EXCEPT ![c] = "check"]
    /\ UNCHANGED <<stageCfg, call, clock, semaphore, reqTimesLock>>
    /\ UNCHANGED <<lifeVars, httpVars, extVars>>

\* if len(self._reqTimes) >= maxReq: return False (the lock is released and
\* HandleRequest answers 403 'Forbidden')
RL_Check(c) ==
    /\ cpc[c] = "check"
    /\ IF Len(reqTimes) >= stageCfg.maxReq
       THEN /\ reqTimesLock' = 0
            /\ cpc' = [cpc EXCEPT ![c] = "done"]
            /\ call' = [call EXCEPT ![c] = Reject([@ EXCEPT !.now = 0], 403, "Forbidden")]
       ELSE /\ cpc' = [cpc EXCEPT ![c] = "append"]
            /\ UNCHANGED <<call, reqTimesLock>>
    /\ UNCHANGED <<stageCfg, clock, semaphore, reqTimes>>
    /\ UNCHANGED <<lifeVars, httpVars, extVars>>

\* self._reqTimes.append(now); return True (the lock is released and
\* HandleRequest calls the downstream handler)
RL_Append(c) ==
    /\ cpc[c] = "append"
    /\ reqTimes' = Append(reqTimes, call[c].now)
    /\ reqTimesLock' = 0
    /\ cpc' = [cpc EXCEPT ![c] = "downstream"]
    /\ call' = [call EXCEPT ![c].forwards = @ + 1, ![c].now = 0]
    /\ UNCHANGED <<stageCfg, clock, semaphore>>
    /\ UNCHANGED <<lifeVars, httpVars, extVars>>

\* ---- HTTP/Auth/IPNetwork.py ----

\* IPNetwork.HandleRequest for a peer address
IPN_HandleRequest(c) ==
    /\ stageCfg.kind = "IPNetwork"
    /\ c \in StageCallers
    /\ cpc[c] = "idle"
    /\ \E srcIP \in IPSamples :
        IF _GetPolicyByIP(stageCfg.ipNetworks, srcIP)
        THEN /\ cpc' = [cpc EXCEPT ![c] = "downstream"]
             /\ call' = [call EXCEPT ![c].input = <<srcIP>>, ![c].forwards = @ + 1]
        ELSE /\ cpc' = [cpc EXCEPT ![c] = "done"]
             /\ call' = [call EXCEPT ![c] = Reject([@ EXCEPT !.input = <<srcIP>>],
                                                   403, "Forbidden")]
    /\ UNCHANGED <<stageCfg, clock, semaphore, reqTimes, reqTimesLock>>
    /\ UNCHANGED <<lifeVars, httpVars, extVars>>

\* ---- HTTPS/Auth/TLS.py ----

\* TLS.HandleRequest from the trust anchor on: what the try block does with
\* a non-empty peer chain, "" when it raises nothing
TLS_Verify(peerCertChain, rootCaCert) ==
    LET res == _VerifyCertChain(peerCertChain, rootCaCert)
        calls == <<[root |-> rootCaCert, verified |-> res.chain, err |-> res.err]>>
    IN  IF res.err # "" THEN [calls |-> calls, raised |-> res.err]
        ELSE IF Len(res.chain) = 0
          THEN [calls |-> calls, raised |-> "The certificate chain is empty."]
        ELSE IF ~res.chain[1].named
          THEN [calls |-> calls, raised |-> "IndexError or ExtensionNotFound"]
        ELSE [calls |-> calls, raised |-> ""]

\* TLS.HandleRequest: 403 'Forbidden' unless the connection is TLS and the
\* peer's certificate chain loads, is not empty and verifies
TLS_HandleRequest(c) ==
    /\ stageCfg.kind = "TLS"
    /\ c \in StageCallers
    /\ cpc[c] = "idle"
    /\ \E peer \in TLSPeerSamples :
        LET rootCaCert == _FindRootCaCert(peer.chain, stageCfg.rootCaCerts)
            tried == IF peer.kind # "chain" \/ Len(peer.chain) = 0
                       THEN [calls |-> <<>>, raised |-> "not tried"]
                     ELSE IF rootCaCert = NoCert
                       THEN [calls |-> <<>>, raised |-> "Cannot find the root CA cert."]
                     ELSE TLS_Verify(peer.chain, rootCaCert)
            in == [call[c] EXCEPT !.input = <<peer>>, !.calls = tried.calls]
        IN IF tried.raised = ""
           THEN /\ cpc' = [cpc EXCEPT ![c] = "downstream"]
                /\ call' = [call EXCEPT ![c] = [in EXCEPT !.forwards = @ + 1]]
           ELSE /\ cpc' = [cpc EXCEPT ![c] = "done"]
                /\ call' = [call EXCEPT ![c] = Reject(in, 403, "Forbidden")]
    /\ UNCHANGED <<stageCfg, clock, semaphore, reqTimes, reqTimesLock>>
    /\ UNCHANGED <<lifeVars, httpVars, extVars>>

\* ---- HTTP/HandlerByPath ----

\* HandlerByPath.HandleRequest with the routing map of the tests
HBP_HandleRequest(c) ==
    /\ stageCfg.kind = "HandlerByPath"
    /\ c \in StageCallers
    /\ cpc[c] = "idle"
    /\ \E relPath \in RoutePathSamples, method \in RouteMethods :
        LET r == CallHandler(ROOT_HANDLER, relPath, method, <<>>)
            in == [call[c] EXCEPT !.input = <<relPath, method>>, !.calls = r.calls]
        IN IF r.code = 0
           THEN /\ cpc' = [cpc EXCEPT ![c] = "downstream"]
                /\ call' = [call EXCEPT ![c] =
                               [in EXCEPT !.business = r.business, !.forwards = @ + 1]]
           ELSE /\ cpc' = [cpc EXCEPT ![c] = "done"]
                /\ call' = [call EXCEPT ![c] = Reject(in, r.code, r.body)]
    /\ UNCHANGED <<stageCfg, clock, semaphore, reqTimes, reqTimesLock>>
    /\ UNCHANGED <<lifeVars, httpVars, extVars>>

\* ---- Server/Utils/DownstreamHandlerBlockByRate.py ----

\* DownstreamHandlerBlockByRate.HandleRequest: without a clientIP in reqState,
\* or when IsIpBlocked(clientIP) says so, it returns having set no response;
\* otherwise it calls the downstream handler.  What IsIpBlocked returns is
\* an input here.
BBR_HandleRequest(c) ==
    /\ stageCfg.kind = "BlockByRate"
    /\ c \in StageCallers
    /\ cpc[c] = "idle"
    /\ \E clientIP \in IPSamples \cup {NoClientIP}, isIpBlocked \in BOOLEAN :
        IF clientIP = NoClientIP \/ isIpBlocked
        THEN /\ cpc' = [cpc EXCEPT ![c] = "done"]
             /\ call' = [call EXCEPT ![c].input = <<clientIP, isIpBlocked>>,
                                     ![c].ended = "returned"]
        ELSE /\ cpc' = [cpc EXCEPT ![c] = "downstream"]
             /\ call' = [call EXCEPT ![c].input = <<clientIP, isIpBlocked>>,
                                     ![c].forwards = @ + 1]
    /\ UNCHANGED <<stageCfg, clock, semaphore, reqTimes, reqTimesLock>>
    /\ UNCHANGED <<lifeVars, httpVars, extVars>>

\* ---- the specification of one stage under concurrent callers ----

CallerStep(c) ==
    \/ CL_Call(c)
    \/ CL_Acquire(c)
    \/ CL_Release(c)
    \/ RL_Now(c)
    \/ RL_Lock(c)
    \/ RL_Evict(c)
    \/ RL_Check(c)
    \/ RL_Append(c)
    \/ IPN_HandleRequest(c)
    \/ TLS_HandleRequest(c)
    \/ HBP_HandleRequest(c)
    \/ BBR_HandleRequest(c)
    \/ Downstream_Return(c)
    \/ Downstream_Raise(c)
    \/ Caller_Next(c)

StageNext ==
    \/ \E c \in Callers : CallerStep(c)
    \/ Tick


-----------------------------------------------------------------------------
\* Server/Utils/DownstreamHandlerBlockByRate.py: the records behind
\* IsIpBlocked, with concurrent callers of HandleRequest

MaxBlockReq == 1        \* largest maxNumRequests
MaxBlockTime == 2       \* last value of time.time()
MaxCalls == 3           \* HandleRequest calls made in all

\* the request threads of the ThreadingMixIn server that are inside
\* HandleRequest at the same time: one to hold a lock, one to wait for it
BlockThreads == {1, 2}

\* reqState['clientIP']; the third is the IPv4-mapped form of the first, the
\* last is not an IP address
ClientIPSamples == {"10.0.0.1", "10.0.0.2", "::ffff:10.0.0.1", "not-an-ip"}

InvalidIP == "<ValueError>"

\* ipaddress.ip_address(ip), with an IPv4-mapped IPv6 address replaced by
\* its IPv4 address
IpObj(ip) ==
    CASE ip = "10.0.0.1" -> "10.0.0.1"
      [] ip = "10.0.0.2" -> "10.0.0.2"
      [] ip = "::ffff:10.0.0.1" -> "10.0.0.1"
      [] OTHER -> InvalidIP

IpObjs == {IpObj(ip) : ip \in ClientIPSamples} \ {InvalidIP}

BlockConfigs ==
    [maxNumRequests : 1..MaxBlockReq, timeWindowSec : {1}, saved : BOOLEAN]

NoBlockConfig == [maxNumRequests |-> 0, timeWindowSec |-> 0, saved |-> FALSE]

\* the file at savedStatePath: not there, opened for writing and still
\* empty, or holding the hosts of a serialized state
NoFile == [state |-> "absent", hosts |-> {}]

\* What one call has read and done:
\*   ip: the ipObj of the call;  after: history, the IP's count had been
\*   raised above the limit when the call came in
\*   checked, blocked: stateCheckRes was computed, and its value
\*   listed: history, the saved file listed the IP at that moment
\*   now: currentTime;  snapshot: serializedState;  forwards: downstream calls
NoBlockCall ==
    [ip |-> "", after |-> FALSE, checked |-> FALSE, blocked |-> FALSE,
     listed |-> FALSE, now |-> 0, snapshot |-> {}, forwards |-> 0]

\* no handler was constructed
BlockIdle ==
    /\ bbCfg = NoBlockConfig
    /\ bbNow = 0
    /\ bbHosts = {}
    /\ bbStateLock = 0
    /\ bbRecordLock = 0
    /\ bbList = <<>>
    /\ bbCounter = <<>>
    /\ bbFile = NoFile
    /\ bbPc = [c \in BlockThreads |-> "idle"]
    /\ bbCall = [c \in BlockThreads |-> NoBlockCall]
    /\ bbIssued = 0
    /\ bbExceeded = {}

\* DownstreamHandlerBlockByRate.__init__ with no saved and no global state
\* on disk
BlockConstructed ==
    /\ bbCfg \in BlockConfigs
    /\ bbNow = 0
    /\ bbHosts = {}
    /\ bbStateLock = 0
    /\ bbRecordLock = 0
    /\ bbList = <<>>
    /\ bbCounter = <<>>
    /\ bbFile = NoFile
    /\ bbPc = [c \in BlockThreads |-> "idle"]
    /\ bbCall = [c \in BlockThreads |-> NoBlockCall]
    /\ bbIssued = 0
    /\ bbExceeded = {}

\* The while loop without the update of the counter
RECURSIVE _EvictOldNoDecrement(_, _, _)
_EvictOldNoDecrement(list, counter, currentTime) ==
    IF Len(list) > 0 /\ (currentTime - list[1].ts) > bbCfg.timeWindowSec
      THEN _EvictOldNoDecrement(Tail(list), counter, currentTime)
      ELSE [list |-> list, counter |-> counter]

\* _CheckRequesterRecord, the while loop: entries older than the window are
\* taken from the left and their IPs' counts decremented; a count that
\* reaches zero is deleted
RECURSIVE _EvictOld(_, _, _)
_EvictOld(list, counter, currentTime) ==
    IF Len(list) > 0 /\ (currentTime - list[1].ts) > bbCfg.timeWindowSec
      THEN LET oldIp == list[1].ip
               n == counter[oldIp] - 1
           IN  _EvictOld(Tail(list),
                         IF n <= 0
                           THEN [ip \in DOMAIN counter \ {oldIp} |-> counter[ip]]
                           ELSE [counter EXCEPT ![oldIp] = n],
                         currentTime)
      ELSE [list |-> list, counter |-> counter]

\* time.time() advances
B_Tick ==
    /\ bbNow < MaxBlockTime
    /\ bbNow' = bbNow + 1
    /\ UNCHANGED <<bbCfg, bbHosts, bbStateLock, bbRecordLock, bbList, bbCounter,
                   bbFile, bbPc, bbCall, bbIssued, bbExceeded>>
    /\ UNCHANGED <<lifeVars, httpVars, stageVars, hostVars, hsVars, listenVars,
                   readVars>>

\* HandleRequest is called with a clientIP in reqState; IsIpBlocked parses
\* it: an invalid address is blocked at once and the request dropped
B_Call(c) ==
    /\ bbPc[c] = "idle"
    /\ bbIssued < MaxCalls
    /\ bbIssued' = bbIssued + 1
    /\ \E ip \in ClientIPSamples :
         IF IpObj(ip) = InvalidIP
           THEN /\ bbCall' = [bbCall EXCEPT ![c] =
                     [NoBlockCall EXCEPT !.ip = InvalidIP, !.checked = TRUE,
                                         !.blocked = TRUE]]
                /\ bbPc' = [bbPc EXCEPT ![c] = "done"]
           ELSE /\ bbCall' = [bbCall EXCEPT ![c] =
                     [NoBlockCall EXCEPT !.ip = IpObj(ip),
                                         !.after = IpObj(ip) \in bbExceeded]]
                /\ bbPc' = [bbPc EXCEPT ![c] = "check"]
    /\ UNCHANGED <<bbCfg, bbNow, bbHosts, bbStateLock, bbRecordLock, bbList,
                   bbCounter, bbFile, bbExceeded>>
    /\ UNCHANGED <<lifeVars, httpVars, stageVars, hostVars, hsVars, listenVars,
                   readVars>>

\* `with self._blockedStateLock:` entered, in IsIpBlocked, in
\* _CheckRequesterRecord or in _WriteSavedState
B_StateLock(c) ==
    /\ bbPc[c] \in {"check", "addHost", "serialize"}
    /\ bbStateLock = 0
    /\ bbStateLock' = c
    /\ bbPc' = [bbPc EXCEPT ![c] =
                  CASE bbPc[c] = "check" -> "checking"
                    [] bbPc[c] = "addHost" -> "adding"
                    [] bbPc[c] = "serialize" -> "serializing"]
    /\ UNCHANGED <<bbCfg, bbNow, bbHosts, bbRecordLock, bbList, bbCounter,
                   bbFile, bbCall, bbIssued, bbExceeded>>
    /\ UNCHANGED <<lifeVars, httpVars, stageVars, hostVars, hsVars, listenVars,
                   readVars>>

\* The check with _blockedStateLock kept after it
B_StateCheckKeepsLock(c) ==
    /\ bbPc[c] = "checking"
    /\ bbCall' = [bbCall EXCEPT ![c].checked = TRUE,
                                ![c].blocked = bbCall[c].ip \in bbHosts,
                                ![c].listed = /\ bbFile.state = "written"
                                              /\ bbCall[c].ip \in bbFile.hosts]
    /\ bbPc' = [bbPc EXCEPT ![c] = "time"]
    /\ UNCHANGED <<bbCfg, bbNow, bbHosts, bbStateLock, bbRecordLock, bbList,
                   bbCounter, bbFile, bbIssued, bbExceeded>>
    /\ UNCHANGED <<lifeVars, httpVars, stageVars, hostVars, hsVars, listenVars,
                   readVars>>

\* IsIpBlocked: `stateCheckRes = self._blockedState.IsIpBlocked(ipObj)` and
\* the with block is left
B_StateCheck(c) ==
    /\ bbPc[c] = "checking"
    /\ bbCall' = [bbCall EXCEPT ![c].checked = TRUE,
                                ![c].blocked = bbCall[c].ip \in bbHosts,
                                ![c].listed = /\ bbFile.state = "written"
                                              /\ bbCall[c].ip \in bbFile.hosts]
    /\ bbStateLock' = 0
    /\ bbPc' = [bbPc EXCEPT ![c] = "time"]
    /\ UNCHANGED <<bbCfg, bbNow, bbHosts, bbRecordLock, bbList,
                   bbCounter, bbFile, bbIssued, bbExceeded>>
    /\ UNCHANGED <<lifeVars, httpVars, stageVars, hostVars, hsVars, listenVars,
                   readVars>>

\* _CheckRequesterRecord: `currentTime = time.time()`, before the lock
B_Time(c) ==
    /\ bbPc[c] = "time"
    /\ bbCall' = [bbCall EXCEPT ![c].now = bbNow]
    /\ bbPc' = [bbPc EXCEPT ![c] = "lock"]
    /\ UNCHANGED <<bbCfg, bbNow, bbHosts, bbStateLock, bbRecordLock, bbList,
                   bbCounter, bbFile, bbIssued, bbExceeded>>
    /\ UNCHANGED <<lifeVars, httpVars, stageVars, hostVars, hsVars, listenVars,
                   readVars>>

\* `with self._requesterRecordLock:` entered
B_RecordLock(c) ==
    /\ bbPc[c] = "lock"
    /\ bbRecordLock = 0
    /\ bbRecordLock' = c
    /\ bbPc' = [bbPc EXCEPT ![c] = "update"]
    /\ UNCHANGED <<bbCfg, bbNow, bbHosts, bbStateLock, bbList, bbCounter,
                   bbFile, bbCall, bbIssued, bbExceeded>>
    /\ UNCHANGED <<lifeVars, httpVars, stageVars, hostVars, hsVars, listenVars,
                   readVars>>

\* the window is cleaned, the request appended and counted, and the count
\* compared with maxNumRequests
B_Update(c) ==
    /\ bbPc[c] = "update"
    /\ LET ev == _EvictOld(bbList, bbCounter, bbCall[c].now)
           ip == bbCall[c].ip
           n == (IF ip \in DOMAIN ev.counter THEN ev.counter[ip] ELSE 0) + 1
       IN  /\ bbList' = Append(ev.list, [ip |-> ip, ts |-> bbCall[c].now])
           /\ bbCounter' = [k \in DOMAIN ev.counter \cup {ip} |->
                               IF k = ip THEN n ELSE ev.counter[k]]
           /\ IF n > bbCfg.maxNumRequests
                THEN /\ bbExceeded' = bbExceeded \cup {ip}
                     /\ bbPc' = [bbPc EXCEPT ![c] = "addHost"]
                ELSE /\ bbExceeded' = bbExceeded
                     /\ bbPc' = [bbPc EXCEPT ![c] = "unlock"]
    /\ UNCHANGED <<bbCfg, bbNow, bbHosts, bbStateLock, bbRecordLock, bbFile,
                   bbCall, bbIssued>>
    /\ UNCHANGED <<lifeVars, httpVars, stageVars, hostVars, hsVars, listenVars,
                   readVars>>

\* `self._blockedState.AddHost(ipObj, currentTime)` and the with block of
\* _blockedStateLock is left
B_AddHost(c) ==
    /\ bbPc[c] = "adding"
    /\ bbHosts' = bbHosts \cup {bbCall[c].ip}
    /\ bbStateLock' = 0
    /\ bbPc' = [bbPc EXCEPT ![c] = IF bbCfg.saved THEN "open" ELSE "unlock"]
    /\ UNCHANGED <<bbCfg, bbNow, bbRecordLock, bbList, bbCounter,
                   bbFile, bbCall, bbIssued, bbExceeded>>
    /\ UNCHANGED <<lifeVars, httpVars, stageVars, hostVars, hsVars, listenVars,
                   readVars>>

\* _WriteSavedState: `open(self._savedStatePath, 'w')` creates or empties
\* the file
B_OpenFile(c) ==
    /\ bbPc[c] = "open"
    /\ bbFile' = [state |-> "empty", hosts |-> {}]
    /\ bbPc' = [bbPc EXCEPT ![c] = "serialize"]
    /\ UNCHANGED <<bbCfg, bbNow, bbHosts, bbStateLock, bbRecordLock, bbList,
                   bbCounter, bbCall, bbIssued, bbExceeded>>
    /\ UNCHANGED <<lifeVars, httpVars, stageVars, hostVars, hsVars, listenVars,
                   readVars>>

\* `serializedState = self._blockedState.Serialize()` and the with block
\* of _blockedStateLock is left
B_Serialize(c) ==
    /\ bbPc[c] = "serializing"
    /\ bbCall' = [bbCall EXCEPT ![c].snapshot = bbHosts]
    /\ bbStateLock' = 0
    /\ bbPc' = [bbPc EXCEPT ![c] = "dump"]
    /\ UNCHANGED <<bbCfg, bbNow, bbHosts, bbRecordLock, bbList,
                   bbCounter, bbFile, bbIssued, bbExceeded>>
    /\ UNCHANGED <<lifeVars, httpVars, stageVars, hostVars, hsVars, listenVars,
                   readVars>>

\* `json.dump(serializedState, f, indent='\t')` and the file is closed
B_Dump(c) ==
    /\ bbPc[c] = "dump"
    /\ bbFile' = [state |-> "written", hosts |-> bbCall[c].snapshot]
    /\ bbPc' = [bbPc EXCEPT ![c] = "unlock"]
    /\ UNCHANGED <<bbCfg, bbNow, bbHosts, bbStateLock, bbRecordLock, bbList,
                   bbCounter, bbCall, bbIssued, bbExceeded>>
    /\ UNCHANGED <<lifeVars, httpVars, stageVars, hostVars, hsVars, listenVars,
                   readVars>>

\* the with block of _requesterRecordLock is left
B_RecordUnlock(c) ==
    /\ bbPc[c] = "unlock"
    /\ bbRecordLock' = 0
    /\ bbPc' = [bbPc EXCEPT ![c] = "decide"]
    /\ UNCHANGED <<bbCfg, bbNow, bbHosts, bbStateLock, bbList, bbCounter,
                   bbFile, bbCall, bbIssued, bbExceeded>>
    /\ UNCHANGED <<lifeVars, httpVars, stageVars, hostVars, hsVars, listenVars,
                   readVars>>

\* HandleRequest: `if self.IsIpBlocked(clientIP): return`, else the
\* downstream handler is called
B_Decide(c) ==
    /\ bbPc[c] = "decide"
    /\ bbCall' = [bbCall EXCEPT ![c].forwards =
                     IF bbCall[c].blocked THEN @ ELSE @ + 1]
    /\ bbPc' = [bbPc EXCEPT ![c] = "done"]
    /\ UNCHANGED <<bbCfg, bbNow, bbHosts, bbStateLock, bbRecordLock, bbList,
                   bbCounter, bbFile, bbIssued, bbExceeded>>
    /\ UNCHANGED <<lifeVars, httpVars, stageVars, hostVars, hsVars, listenVars,
                   readVars>>

\* the caller goes on to its next request
B_Next(c) ==
    /\ bbPc[c] = "done"
    /\ bbCall' = [bbCall EXCEPT ![c] = NoBlockCall]
    /\ bbPc' = [bbPc EXCEPT ![c] = "idle"]
    /\ UNCHANGED <<bbCfg, bbNow, bbHosts, bbStateLock, bbRecordLock, bbList,
                   bbCounter, bbFile, bbIssued, bbExceeded>>
    /\ UNCHANGED <<lifeVars, httpVars, stageVars, hostVars, hsVars, listenVars,
                   readVars>>

BlockCallerStep(c) ==
    \/ B_Call(c)
    \/ B_StateLock(c)
    \/ B_StateCheck(c)
    \/ B_Time(c)
    \/ B_RecordLock(c)
    \/ B_Update(c)
    \/ B_AddHost(c)
    \/ B_OpenFile(c)
    \/ B_Serialize(c)
    \/ B_Dump(c)
    \/ B_RecordUnlock(c)
    \/ B_Decide(c)
    \/ B_Next(c)

BlockNext ==
    \/ \E c \in BlockThreads : BlockCallerStep(c)
    \/ B_Tick

-----------------------------------------------------------------------------
\* HTTP/PreHandler.py: _RFileReadline and the loop of handle() around it

\* _RFileReadline: pollInterval = 0.5 and timeout = 2.0, in poll intervals
PollInterval == 1
ReadTimeout == 4

\* the worker is inside _RFileReadline
WaitingForRequest == rwPc \in {"read", "select", "event"}

\* no connection is being served
ReadIdle ==
    /\ rwPc = "closed"
    /\ rwElapsed = 0
    /\ rwData = FALSE
    /\ rwRead = 0
    /\ rwCause = ""

\* handle(): the first handle_one_request() calls _RFileReadline, which
\* takes startTime
ReadStart ==
    /\ rwPc = "read"
    /\ rwElapsed = 0
    /\ rwData = FALSE
    /\ rwRead = 0
    /\ rwCause = ""

\* the client sends (the first bytes of) its next request
RW_ClientSends ==
    /\ WaitingForRequest
    /\ ~rwData
    /\ rwRead < MaxRequests
    /\ rwData' = TRUE
    /\ UNCHANGED <<rwPc, rwElapsed, rwRead, rwCause>>
    /\ UNCHANGED <<lifeVars, httpVars, stageVars, hostVars, hsVars, listenVars,
                   blockVars>>

\* time passes between two steps of the worker; past the deadline more time
\* makes no difference
RW_TimePasses ==
    /\ rwPc \in {"read", "select"}
    /\ rwElapsed <= ReadTimeout
    /\ rwElapsed' = rwElapsed + 1
    /\ UNCHANGED <<rwPc, rwData, rwRead, rwCause>>
    /\ UNCHANGED <<lifeVars, httpVars, stageVars, hostVars, hsVars, listenVars,
                   blockVars>>

\* The loop test without the deadline
RW_LoopTopNoDeadline ==
    /\ rwPc = "read"
    /\ IF terminateEvent
         THEN rwPc' = "closed" /\ rwCause' = "terminated"
         ELSE rwPc' = "select" /\ rwCause' = rwCause
    /\ UNCHANGED <<rwElapsed, rwData, rwRead>>
    /\ UNCHANGED <<lifeVars, httpVars, stageVars, hostVars, hsVars, listenVars,
                   blockVars>>

\* `while not self.server.terminateEvent.is_set():` and
\* `if (time.time() - startTime) > timeout: return b''`, else select is
\* called; handle_one_request(): `if not self.raw_requestline:
\* self.close_connection = True`, which ends handle()
RW_LoopTop ==
    /\ rwPc = "read"
    /\ IF terminateEvent
         THEN rwPc' = "closed" /\ rwCause' = "terminated"
         ELSE IF rwElapsed > ReadTimeout
           THEN rwPc' = "closed" /\ rwCause' = "deadline"
           ELSE rwPc' = "select" /\ rwCause' = rwCause
    /\ UNCHANGED <<rwElapsed, rwData, rwRead>>
    /\ UNCHANGED <<lifeVars, httpVars, stageVars, hostVars, hsVars, listenVars,
                   blockVars>>

\* `selector.select(pollInterval)` returns: with the socket readable, or
\* with nothing after pollInterval
RW_Select ==
    /\ rwPc = "select"
    /\ IF rwData
         THEN rwPc' = "event" /\ rwElapsed' = rwElapsed
         ELSE /\ rwPc' = "read"
              /\ rwElapsed' = IF rwElapsed <= ReadTimeout
                                THEN rwElapsed + PollInterval ELSE rwElapsed
    /\ UNCHANGED <<rwData, rwRead, rwCause>>
    /\ UNCHANGED <<lifeVars, httpVars, stageVars, hostVars, hsVars, listenVars,
                   blockVars>>

\* The step after select without the test of the termination event
RW_EventNoCheck ==
    /\ rwPc = "event"
    /\ \/ /\ rwPc' = "handle"
          /\ rwRead' = rwRead + 1
          /\ rwData' = FALSE
          /\ rwCause' = rwCause
       \/ /\ rwPc' = "closed"
          /\ rwCause' = "failed"
          /\ UNCHANGED <<rwRead, rwData>>
    /\ UNCHANGED rwElapsed
    /\ UNCHANGED <<lifeVars, httpVars, stageVars, hostVars, hsVars, listenVars,
                   blockVars>>

\* in the for loop over the events: `if terminateEvent.is_set(): return b''`,
\* else `data = self.rfile.readline(size)`: the request line, or an
\* exception (or the end of the stream), which returns b''
RW_Event ==
    /\ rwPc = "event"
    /\ IF terminateEvent
         THEN /\ rwPc' = "closed"
              /\ rwCause' = "terminated"
              /\ UNCHANGED <<rwRead, rwData>>
         ELSE \/ /\ rwPc' = "handle"
                 /\ rwRead' = rwRead + 1
                 /\ rwData' = FALSE
                 /\ rwCause' = rwCause
              \/ /\ rwPc' = "closed"
                 /\ rwCause' = "failed"
                 /\ UNCHANGED <<rwRead, rwData>>
    /\ UNCHANGED rwElapsed
    /\ UNCHANGED <<lifeVars, httpVars, stageVars, hostVars, hsVars, listenVars,
                   blockVars>>

\* the rest of handle_one_request() (HttpSpec) and the test of handle():
\* `while not self.close_connection:` ends the connection or calls
\* handle_one_request() again, which takes a new startTime
RW_Handled ==
    /\ rwPc = "handle"
    /\ \E close \in BOOLEAN :
         IF close THEN rwPc' = "closed" /\ rwElapsed' = rwElapsed
         ELSE rwPc' = "read" /\ rwElapsed' = 0
    /\ UNCHANGED <<rwData, rwRead, rwCause>>
    /\ UNCHANGED <<lifeVars, httpVars, stageVars, hostVars, hsVars, listenVars,
                   blockVars>>

\* the steps of the connection's worker thread
ReadWorkerStep ==
    \/ RW_LoopTop
    \/ RW_Select
    \/ RW_Event
    \/ RW_Handled

ReadNext ==
    \/ ReadWorkerStep
    \/ RW_ClientSends
    \/ RW_TimePasses
    \/ \E t \in Terminators : Terminate_SetEvent(t)

-----------------------------------------------------------------------------
\* The specification of the server's lifecycle: no connection is being served

HttpIdle ==
    /\ enabledCommands = DefaultEnabledCommands
    /\ chain = <<>>
    /\ wpc = "closed"
    /\ req = NoRequest
    /\ reqIdx = 0
    /\ py = FreshHandler
    /\ rootInvoked = FALSE
    /\ handlerRan = NoCall
    /\ excCaught = FALSE

ExtIdle ==
    HostFieldIdle /\ HandlerStateIdle /\ ListenIdle /\ BlockIdle /\ ReadIdle

Init == LifeInit /\ HttpIdle /\ StageIdle /\ ExtIdle

-----------------------------------------------------------------------------
StarterStep(s) ==
    \/ TSUT_Acquire(s)
    \/ TSUT_CheckStarted(s)
    \/ TSUT_CheckTerm(s)
    \/ TSUT_Mark(s)
    \/ TSUT_Spawn(s)
    \/ TSUT_Release(s)

TerminatorStep(t) ==
    \/ Terminate_SetEvent(t)
    \/ Terminate_Shutdown(t)
    \/ Terminate_Acquire(t)
    \/ Terminate_CheckStarted(t)
    \/ Terminate_Join(t)
    \/ Terminate_Release(t)
    \/ Terminate_CleanUp(t)

ServeStep ==
    \/ Serve_Top
    \/ Serve_Select
    \/ Serve_Post
    \/ Serve_Handle
    \/ Serve_HandleBusy
    \/ Serve_BusyLoop
    \/ Serve_Actions


Next ==
    \/ \E s \in Starters : StarterStep(s)
    \/ \E t \in Terminators : TerminatorStep(t)
    \/ ServeStep

Spec == Init /\ [][Next]_vars

\* Every thread that can take a step is eventually scheduled by the OS.
Fairness ==
    /\ \A s \in Starters : WF_vars(StarterStep(s))
    /\ \A t \in Terminators : WF_vars(TerminatorStep(t))
    /\ WF_vars(ServeStep)

LiveSpec == Spec /\ Fairness

\* The lifecycle of a TLS or HTTPS server: the serve thread's accept does
\* the handshake, whose end is the client's step
TlsServeStep ==
    \/ Serve_Top
    \/ Serve_Select
    \/ Serve_Post
    \/ TlsServe_Accept
    \/ Serve_Actions

TlsNext ==
    \/ \E s \in Starters : StarterStep(s)
    \/ \E t \in Terminators : TerminatorStep(t)
    \/ TlsServeStep
    \/ TlsServe_HandshakeDone

TlsSpec == Init /\ [][TlsNext]_vars

\* Every thread of the server is scheduled; the client is free to send its
\* handshake records or not.
TlsLiveSpec ==
    /\ TlsSpec
    /\ \A s \in Starters : WF_vars(StarterStep(s))
    /\ \A t \in Terminators : WF_vars(TerminatorStep(t))
    /\ WF_vars(TlsServeStep)

\* The lifecycle of a server whose accept loop runs in the thread that
\* called ServeUntilTerminate(): no serve thread is created, so Terminate()
\* finds hasServeThreadStarted false and has no thread to join
DirectTerminatorStep(t) ==
    \/ Terminate_SetEvent(t)
    \/ Terminate_Shutdown(t)
    \/ Terminate_Acquire(t)
    \/ Terminate_CheckStarted(t)
    \/ Terminate_Release(t)
    \/ Terminate_CleanUp(t)

DirectNext ==
    \/ SUT_Call
    \/ \E t \in Terminators : DirectTerminatorStep(t)
    \/ ServeStep

DirectSpec == Init /\ [][DirectNext]_vars

DirectLiveSpec ==
    /\ DirectSpec
    /\ \A t \in Terminators : WF_vars(DirectTerminatorStep(t))
    /\ WF_vars(ServeStep)

-----------------------------------------------------------------------------
\* The specification of one HTTP connection: the server is serving (one
\* ThreadedServeUntilTerminate() call has returned, the accept loop has
\* handed one connection to a worker), Terminate() may set the termination
\* event at any moment

Serving ==
    /\ terminateEvent = FALSE
    /\ hasShutdownRequest = FALSE
    /\ stateLock = 0
    /\ hasServeThreadStarted = TRUE
    /\ threadsStarted = 1
    /\ servePc = "actions"
    /\ ready = TRUE
    /\ numAccepted = 1
    /\ socketClosed = FALSE
    /\ startPc = [s \in Starters |-> IF s = 1 THEN "done" ELSE "idle"]
    /\ termPc = [t \in Terminators |-> "idle"]
    /\ termAtEntry = [s \in Starters |-> FALSE]
    /\ spawned = [s \in Starters |-> s = 1]

HttpInit ==
    /\ Serving
    /\ enabledCommands = DefaultEnabledCommands
    /\ chain \in Chains
    /\ WorkerStart
    /\ StageIdle
    /\ ExtIdle

WorkerStep ==
    \/ Worker_ReadEmpty
    \/ Worker_ReadRequest
    \/ Worker_Validate
    \/ Worker_Dispatch
    \/ Worker_Respond
    \/ Worker_Loop

HttpNext ==
    \/ WorkerStep
    \/ \E t \in Terminators : Terminate_SetEvent(t)

HttpSpec == HttpInit /\ [][HttpNext]_vars

\* The specification of one stage: no server thread runs and no connection is
\* being served
StageInit == LifeInit /\ HttpIdle /\ StageConstructed /\ ExtIdle

StageSpec == StageInit /\ [][StageNext]_vars

\* The specification of the HandlerState shared by the workers
HandlerStateInit == LifeInit /\ HttpIdle /\ StageIdle /\ ExtIdle

\* The specification of one DownstreamHandlerBlockByRate and its callers
BlockInit ==
    /\ LifeInit /\ HttpIdle /\ StageIdle
    /\ HostFieldIdle /\ HandlerStateIdle /\ ListenIdle /\ BlockConstructed
    /\ ReadIdle

BlockSpec == BlockInit /\ [][BlockNext]_vars

\* The requests of one burst: the calls are made within one reading of
\* time.time(), so the locks are contended and the clock plays no part
BlockBurstNext == \E c \in BlockThreads : BlockCallerStep(c)

BlockBurstSpec == BlockInit /\ [][BlockBurstNext]_vars

\* every thread inside HandleRequest is scheduled again
BlockLiveSpec ==
    BlockBurstSpec /\ \A c \in BlockThreads : WF_vars(BlockCallerStep(c))

HandlerStateSpec == HandlerStateInit /\ [][HandlerStateNext]_vars

\* The specification of one connection worker waiting for request lines
\* while the server is serving; Terminate() may set the termination event
\* at any moment
ReadInit ==
    /\ Serving /\ HttpIdle /\ StageIdle
    /\ HostFieldIdle /\ HandlerStateIdle /\ ListenIdle /\ BlockIdle
    /\ ReadStart

ReadSpec == ReadInit /\ [][ReadNext]_vars

\* The worker thread of the connection is eventually scheduled.
ReadLiveSpec == ReadSpec /\ WF_vars(ReadWorkerStep)

\* The specification of the accept loop of a TLS listener
ListenInit ==
    /\ LifeInit /\ HttpIdle /\ StageIdle
    /\ HostFieldIdle /\ HandlerStateIdle /\ ListenStarted /\ BlockIdle
    /\ ReadIdle

ListenSpec == ListenInit /\ [][ListenNext]_vars

\* The serve thread is scheduled while it is inside accept().
ListenLiveSpec == ListenSpec /\ WF_vars(AcceptStep)

\* The specification of one ParseHostField call
HostFieldInit ==
    /\ LifeInit /\ HttpIdle /\ StageIdle
    /\ HostFieldCalled /\ HandlerStateIdle /\ ListenIdle /\ BlockIdle
    /\ ReadIdle

HostFieldNext == HF_ParseHostField

HostFieldSpec == HostFieldInit /\ [][HostFieldNext]_vars


-----------------------------------------------------------------------------
\* Claims about the lifecycle (ServerBase.py, PySocketServer.py)

InCritical(s) == startPc[s] \in {"chkStarted", "chkTerm", "mark", "spawn", "unlock"}
SomeTerminateReturned == \E t \in Terminators : termPc[t] = "done"

\* C1: a ThreadedServeUntilTerminate() call that takes stateLock after
\* Terminate() has set the termination event returns without creating a serve
\* thread and leaves hasServeThreadStarted false; and once a Terminate() call
\* has returned, no step starts a serve thread any more.
C1_TerminateFirstPreventsStart ==
    /\ [](\A s \in Starters :
            termAtEntry[s] =>
               /\ ~spawned[s]
               /\ startPc[s] \in {"chkStarted", "chkTerm", "done"}
               /\ (startPc[s] = "done" /\ threadsStarted = 0
                     => ~hasServeThreadStarted))
    /\ [][SomeTerminateReturned =>
            /\ threadsStarted' = threadsStarted
            /\ hasServeThreadStarted' = hasServeThreadStarted]_vars

\* A call that entered after the event was set has returned, and nothing runs.
C1_Witness ==
    \E s \in Starters :
        /\ termAtEntry[s]
        /\ startPc[s] = "done"
        /\ ~hasServeThreadStarted
        /\ \A u \in Starters : startPc[u] = "done"
        /\ SomeTerminateReturned

\* C2: in every interleaving of Terminate() with ThreadedServeUntilTerminate()
\* calls, a Terminate() that was called returns, and once it has returned the
\* accept loop is not running and the listening socket is closed.
C2_TerminateSafeAnyOrder ==
    /\ \A t \in Terminators : (termPc[t] # "idle") ~> (termPc[t] = "done")
    /\ [](SomeTerminateReturned => socketClosed /\ servePc \in ServeStopped)

\* Terminate() has returned after joining a serve thread that had accepted.
C2_Witness ==
    /\ SomeTerminateReturned
    /\ servePc = "exited"
    /\ socketClosed
    /\ numAccepted > 0

\* C3: at most one serve thread is ever created and started, and the check
\* of hasServeThreadStarted and its marking happen under stateLock (at most
\* one call is between them at a time, and it holds the lock).
C3_AtMostOneServeThread ==
    /\ threadsStarted <= 1
    /\ Cardinality({s \in Starters : spawned[s]}) <= 1
    /\ \A s \in Starters : InCritical(s) => stateLock = s
    /\ (threadsStarted = 1) => hasServeThreadStarted

\* One call started the thread and another returned without spawning.
C3_Witness ==
    \E s, u \in Starters :
        /\ s # u
        /\ spawned[s] /\ startPc[s] = "done"
        /\ ~spawned[u] /\ startPc[u] = "done" /\ ~termAtEntry[u]
        /\ threadsStarted = 1

\* C4: Terminate() sets the termination event, then the shutdown flag, then
\* waits for the serve thread if it was started, and only then closes the
\* listening socket: the socket is never closed while the serve thread is
\* alive.
C4_TerminateOrder ==
    /\ \A t \in Terminators :
         /\ termPc[t] # "idle" => terminateEvent
         /\ termPc[t] \notin {"idle", "shutdown"} => hasShutdownRequest
         /\ termPc[t] \in {"unlock", "cleanup", "done"} =>
               (hasServeThreadStarted => servePc = "exited")
    /\ socketClosed =>
         /\ terminateEvent
         /\ hasShutdownRequest
         /\ servePc \notin ServeRunning

\* The listener was closed after a started serve thread had exited.
C4_Witness ==
    /\ socketClosed
    /\ hasServeThreadStarted
    /\ servePc = "exited"

\* C5: the accept loop tests the shutdown flag at the top of every iteration
\* and again after every poll wait; with the flag set, either test leaves
\* the loop, so a connection found ready by that wait is not accepted; the
\* running loop eventually exits once the flag is set; and shutdown() only
\* sets the flag, so it can always take its step.
C5_AcceptLoopInterruptible ==
    /\ [][hasShutdownRequest /\ servePc \in {"top", "post"}
            => servePc' \in {servePc, "exited"}]_vars
    /\ [][(servePc = "actions") => servePc' \in {"actions", "top"}]_vars
    /\ [][(servePc = "select") => servePc' \in {"select", "post"}]_vars
    /\ (hasShutdownRequest /\ servePc \in ServeRunning) ~> (servePc = "exited")
    /\ [](\A t \in Terminators :
            termPc[t] = "shutdown" => ENABLED Terminate_Shutdown(t))

\* The flag is set while the loop holds a ready connection it has not accepted.
C5_Witness ==
    /\ hasShutdownRequest
    /\ servePc = "post"
    /\ ready

-----------------------------------------------------------------------------
\* Claims about the HTTP Pre-Handler (checked under HttpSpec)

\* _HandleOneRequest has returned, or an exception has left it
RequestDone == wpc \in {"loop", "crashed"}

\* The Host header of the current request is present and ParseHostField
\* raises ValueError on it
HostUnparseable ==
    /\ req.host # <<Absent>>
    /\ ParseHostField(req.host, ServerPort).kind = "ERROR"

InternalServerError ==
    [code |-> 500, body |-> "Internal server error", via |-> "DoResponse"]

\* C6: every parsed request handed to _HandleOneRequest gets exactly one
\* response written to the connection.
C6_ExactlyOneResponse == RequestDone => py.written = 1

\* C7: a method that is not enabled is answered 400; otherwise a request
\* without a Host header is answered 400; otherwise a request-target with a
\* character outside the allowed set is answered 400; and in each of these
\* cases the root downstream handler is not invoked.
C7_ValidationOrder ==
    (/\ RequestDone
     /\ \/ req.command \notin enabledCommands
        \/ req.host = <<Absent>>
        \/ \E i \in 1..Len(req.path) : req.path[i] \notin VALID_CHARS_PATH_QUERY_SET)
    => /\ py.written = 1
       /\ py.last.code = 400
       /\ ~rootInvoked

\* C8: a request with an enabled method whose Host header value cannot be
\* parsed is answered 400 and the downstream handler is not invoked.
C8_UnparseableHost400 ==
    (RequestDone /\ req.command \in enabledCommands /\ HostUnparseable)
    => /\ py.written = 1
       /\ py.last.code = 400
       /\ ~rootInvoked

\* C9 as stated: when the business handler beneath the chain raises, the
\* Pre-Handler sets 500 'Internal server error' and sends that response.
C9_HandlerRaisesSends500 ==
    (wpc = "loop" /\ handlerRan.raised)
    => /\ py.written = 1
       /\ py.last = InternalServerError

\* C9, amended: when the business handler beneath the chain raises, no stage
\* catches the exception: the Pre-Handler's except clause runs and sets 500
\* 'Internal server error'.  That response is the one written, unless the
\* handler had sent a response of its own before it raised (then that one
\* stays the only response) or the termination event is set when the
\* Pre-Handler is about to send (then nothing is written).
C9_HandlerRaises500UnlessSentOrTerminated ==
    /\ (wpc \in {"respond", "loop"} /\ handlerRan.raised)
       => /\ excCaught
          /\ py.statusCode = 500
          /\ py.body = "Internal server error"
    /\ (wpc = "loop" /\ handlerRan.raised /\ ~handlerRan.sent /\ ~terminateEvent)
       => /\ py.written = 1
          /\ py.last = InternalServerError
    /\ (wpc = "loop" /\ handlerRan.raised /\ handlerRan.sent)
       => /\ py.written = 1
          /\ py.last.code # 500
    /\ (wpc = "loop" /\ handlerRan.raised /\ ~handlerRan.sent)
       => py.written <= 1

\* A handler beneath a forwarding stage raised and the 500 went out.
C9_Witness ==
    /\ wpc = "loop"
    /\ Len(chain) >= 1
    /\ handlerRan.raised
    /\ ~terminateEvent
    /\ py.last = InternalServerError

\* C10: after a response is sent, handle() reads another request on the
\* connection exactly when the request's Connection header is 'keep-alive'
\* in any letter case and the handler called AllowKeepAlive() during that
\* request; otherwise the connection is closed after that one response.
C10_KeepAliveIffRequestedAndAllowed ==
    [][(wpc = "loop" /\ wpc' # "loop" /\ py.written >= 1)
         => /\ wpc' \in {"read", "closed"}
            /\ py.written = 1
            /\ (wpc' = "read") <=>
                 (req.conn \in {"keep-alive", "Keep-Alive"} /\ handlerRan.allowKA)]_vars

\* The second request of a connection is being read after a request with
\* `Connection: Keep-Alive` whose handler called AllowKeepAlive().
C10_Witness ==
    /\ wpc = "read"
    /\ reqIdx = 1
    /\ req.conn = "Keep-Alive"
    /\ handlerRan.allowKA
    /\ py.written = 1

-----------------------------------------------------------------------------
\* Claims about the stages (Server/HTTP/Auth, Server/HTTPS/Auth,
\* Server/HTTP/HandlerByPath, Server/Utils)

\* The call wrote a rejection and did not call the next stage
Rejected(k) == k.code >= 400 /\ k.body # "" /\ k.forwards = 0

\* The call called the next stage exactly once and wrote no rejection
ForwardedOnce(k) == k.code = 0 /\ k.forwards = 1

\* C11: every call of a stage's HandleRequest that has ended either wrote a
\* rejection (an error status with a body) without calling the next stage, or
\* called the next stage exactly once; none ended having done neither.
C11_RejectOrForwardOnce ==
    \A c \in Callers :
        cpc[c] = "done" => (Rejected(call[c]) \/ ForwardedOnce(call[c]))

\* The callers between a successful acquire and the release
HoldingPermit == {c \in Callers : call[c].permit}

\* The callers whose downstream call is running
InDownstream == {c \in Callers : cpc[c] = "downstream"}

\* C12: ConcurrentLimiter's permits are conserved: a call holds a permit
\* exactly from its successful acquire until the release that follows the end
\* of its downstream call, by return or by exception; a rejected call holds
\* none; so the permits left plus the permits held are maxConcurrent, and
\* with no call between acquire and release the semaphore holds maxConcurrent.
C12_PermitsConserved ==
    stageCfg.kind = "ConcurrentLimiter" =>
        /\ semaphore >= 0
        /\ semaphore + Cardinality(HoldingPermit) = stageCfg.maxConcurrent
        /\ \A c \in Callers : call[c].permit <=> cpc[c] \in {"downstream", "release"}
        /\ \A c \in Callers : Rejected(call[c]) => ~call[c].permit
        /\ HoldingPermit = {} => semaphore = stageCfg.maxConcurrent

\* A downstream call that raised has ended, its permit is back, and another
\* call was rejected meanwhile
C12_Witness ==
    /\ stageCfg.kind = "ConcurrentLimiter"
    /\ semaphore = stageCfg.maxConcurrent
    /\ \E c, r \in Callers :
        /\ cpc[c] = "done" /\ call[c].forwards = 1 /\ call[c].ended = "raised"
        /\ cpc[r] = "done" /\ Rejected(call[r])

\* The call of c finds no permit: it is at the acquire and the semaphore is 0
FindsNoPermit(c) == cpc[c] = "acquire" /\ semaphore = 0

\* C13: in every interleaving at most maxConcurrent calls are inside
\* ConcurrentLimiter's downstream handler; a call at the acquire never waits
\* (its next step is always possible), and the step of a call that finds no
\* permit ends the call with 403 'Forbidden', the downstream handler not
\* invoked and the semaphore untouched.
C13_AtMostMaxConcurrentNoWaiting ==
    /\ [](stageCfg.kind = "ConcurrentLimiter" =>
            /\ Cardinality(InDownstream) <= stageCfg.maxConcurrent
            /\ \A c \in Callers : cpc[c] = "acquire" => ENABLED CL_Acquire(c))
    /\ [][\A c \in Callers :
            (FindsNoPermit(c) /\ cpc'[c] # cpc[c]) =>
                /\ cpc'[c] = "done"
                /\ call'[c].code = 403 /\ call'[c].body = "Forbidden"
                /\ call'[c].forwards = 0 /\ ~call'[c].permit
                /\ semaphore' = semaphore]_vars

\* maxConcurrent calls are inside the downstream handler and a further call
\* has been answered 403
C13_Witness ==
    /\ stageCfg.kind = "ConcurrentLimiter"
    /\ Cardinality(InDownstream) = stageCfg.maxConcurrent
    /\ \E r \in Callers : cpc[r] = "done" /\ call[r].code = 403 /\ call[r].forwards = 0

\* C14: on an HTTP server whose root handler is a ConcurrentLimiter over a
\* business handler, a request that arrives with no other request in flight
\* is forwarded through the limiter to the business handler, and the response
\* the client receives is the handler's, not the Pre-Handler's 500.
C14_LoneRequestReachesHandler ==
    (/\ chain = <<"ConcurrentLimiter">>
     /\ wpc = "loop"
     /\ rootInvoked
     /\ ~terminateEvent)
    => /\ handlerRan.ran
       /\ py.last # InternalServerError

\* The callers inside the `with self._reqTimesLock` block of _CheckRateLimit
InCheckRateLimit == {c \in Callers : cpc[c] \in {"evict", "check", "append"}}

\* C15: in every interleaving RateLimiter's window holds at most maxReq
\* timestamps; eviction, count check and append of one call run with the lock
\* held and with no other call between them, so the call that is about to
\* append still sees fewer than maxReq entries.
C15_WindowAtMostMaxReq ==
    stageCfg.kind = "RateLimiter" =>
        /\ Len(reqTimes) <= stageCfg.maxReq
        /\ Cardinality(InCheckRateLimit) <= 1
        /\ \A c \in InCheckRateLimit : reqTimesLock = c
        /\ InCheckRateLimit = {} => reqTimesLock = 0
        /\ \A c \in Callers : cpc[c] = "append" => Len(reqTimes) < stageCfg.maxReq

\* One call has seen maxReq-1 entries and is about to append while another
\* call, which would see the same, waits for the lock
C15_Witness ==
    /\ stageCfg.kind = "RateLimiter"
    /\ Len(reqTimes) = stageCfg.maxReq - 1
    /\ \E c, w \in Callers : cpc[c] = "append" /\ cpc[w] = "lock"

\* after is before without its first n timestamps, each of them older than
\* period at time now, and the first one left is not
EvictedFront(before, after, now, period) ==
    \E n \in 0..Len(before) :
        /\ after = SubSeq(before, n + 1, Len(before))
        /\ \A i \in 1..n : now - before[i] > period
        /\ n < Len(before) => now - before[n + 1] <= period

\* C16: a RateLimiter call that read the time now first removes from the
\* front of the window every timestamp t with now - t > timePeriodSec and
\* stops at the first one that is not (one exactly timePeriodSec old is
\* kept); then, if at least maxReq timestamps are left, it answers 403
\* 'Forbidden', appends nothing and does not forward; otherwise it appends now
\* and forwards to the downstream handler.
C16_EvictThenCheckThenAppend ==
    [][\A c \in Callers :
        /\ (cpc[c] = "evict" /\ cpc'[c] # "evict") =>
              /\ cpc'[c] = "check"
              /\ EvictedFront(reqTimes, reqTimes', call[c].now, stageCfg.timePeriodSec)
        /\ (cpc[c] = "check" /\ cpc'[c] # "check") =>
              /\ reqTimes' = reqTimes
              /\ IF Len(reqTimes) >= stageCfg.maxReq
                 THEN /\ cpc'[c] = "done"
                      /\ call'[c].code = 403 /\ call'[c].body = "Forbidden"
                      /\ call'[c].forwards = 0
                 ELSE /\ cpc'[c] = "append"
                      /\ call'[c].code = 0
        /\ (cpc[c] = "append" /\ cpc'[c] # "append") =>
              /\ reqTimes' = Append(reqTimes, call[c].now)
              /\ cpc'[c] = "downstream"
              /\ call'[c].code = 0 /\ call'[c].forwards = 1]_vars

\* After the eviction of a call the oldest timestamp left is exactly
\* timePeriodSec old, and the window is full: the call will be rejected
C16_Witness ==
    /\ stageCfg.kind = "RateLimiter"
    /\ \E c \in Callers :
        /\ cpc[c] = "check"
        /\ reqTimes # <<>>
        /\ call[c].now - reqTimes[1] = stageCfg.timePeriodSec
        /\ Len(reqTimes) >= stageCfg.maxReq

\* The positions of the configured rules whose network contains ip
MatchingRules(ip) ==
    {i \in 1..Len(stageCfg.ipNetworks) : IPInNetwork(ip, stageCfg.ipNetworks[i].network)}

\* The allow flag of the first rule that contains ip; deny without one
FirstMatchPolicy(ip) ==
    IF MatchingRules(ip) = {} THEN FALSE
    ELSE LET first == CHOOSE i \in MatchingRules(ip) : \A j \in MatchingRules(ip) : i <= j
         IN  stageCfg.ipNetworks[first].policy

\* C17: IPNetwork decides by the first rule, in configured order, whose
\* network contains the peer IP, and denies when no rule contains it: an
\* allowed call is forwarded once, a denied call is answered 403 'Forbidden'
\* and not forwarded.
C17_FirstMatchWins ==
    \A c \in Callers :
        (stageCfg.kind = "IPNetwork" /\ cpc[c] # "idle") =>
            IF FirstMatchPolicy(call[c].input[1])
            THEN ForwardedOnce(call[c])
            ELSE /\ cpc[c] = "done"
                 /\ call[c].code = 403 /\ call[c].body = "Forbidden"
                 /\ call[c].forwards = 0

\* Two rules contain the peer, the first denies and a later one allows: the
\* call was answered 403
C17_Witness ==
    /\ stageCfg.kind = "IPNetwork"
    /\ \E c \in Callers :
        /\ cpc[c] = "done"
        /\ call[c].code = 403
        /\ \E i, j \in MatchingRules(call[c].input[1]) :
              /\ i < j
              /\ ~stageCfg.ipNetworks[i].policy
              /\ stageCfg.ipNetworks[j].policy

\* The call of c is a call of HandlerByPath.HandleRequest
HBPCall(c) == stageCfg.kind = "HandlerByPath" /\ cpc[c] # "idle"

\* The call of c ended with 404 'Not Found' and no business handler invoked
AnsweredNotFound(c) ==
    /\ cpc[c] = "done"
    /\ call[c].code = 404 /\ call[c].body = "Not Found"
    /\ call[c].business = "" /\ call[c].forwards = 0

\* C18: each handler built by HandlerByPathMap that a request reaches splits
\* the relPath it was given; when its map has an entry for the this-level
\* component and that entry has one for the request method, the next handler
\* called is exactly that one, with the remainder as relPath; otherwise the
\* request ends there with 404 'Not Found'.  The first handler called is the
\* root map with the request's relPath, so nested maps consume one level
\* each and need the method at every level.
C18_MapRoutesOneLevel ==
    \A c \in Callers :
        HBPCall(c) =>
            LET t == call[c].calls
                method == call[c].input[2]
            IN  /\ t # <<>>
                /\ t[1] = [handler |-> ROOT_HANDLER, relPath |-> call[c].input[1]]
                /\ \A i \in 1..Len(t) :
                     t[i].handler.kind = "Map" =>
                        LET split == _SplitThisAndNextLevelPath(t[i].relPath)
                            map == t[i].handler.map
                            found == /\ split.ok
                                     /\ split.this \in DOMAIN map
                                     /\ method \in DOMAIN map[split.this]
                        IN  IF found
                            THEN /\ i < Len(t)
                                 /\ t[i + 1] = [handler |-> map[split.this][method],
                                                relPath |-> split.next]
                            ELSE /\ i = Len(t)
                                 /\ AnsweredNotFound(c)

\* A request went through two maps and reached the business handler of the
\* second level
C18_Witness ==
    \E c \in Callers :
        /\ HBPCall(c)
        /\ cpc[c] = "downstream"
        /\ call[c].business = "HandleHelloWorld"
        /\ call[c].calls[1].handler.kind = "Map"
        /\ call[c].calls[2].handler.kind = "Map"
        /\ call[c].calls[2].relPath = <<"/", "W", "o", "r", "l", "d">>

\* The characters [A-Za-z0-9_-]
SegmentChars ==
    AlphaLower \cup AlphaUpper \cup Digit \cup {"_", "-"}

\* What the split of p has to be: ('', '') for ''; for p with a leading '/',
\* (a, b) with a + b = p, a the '/' and the longest run of SegmentChars after
\* it, b empty or starting outside SegmentChars; a failure otherwise
SplitAsSpecified(p, split) ==
    IF p = <<>> THEN split.ok /\ split.this = <<>> /\ split.next = <<>>
    ELSE IF p[1] = "/"
      THEN /\ split.ok
           /\ split.this \o split.next = p
           /\ split.this # <<>> /\ split.this[1] = "/"
           /\ \A i \in 2..Len(split.this) : split.this[i] \in SegmentChars
           /\ split.next = <<>> \/ split.next[1] \notin SegmentChars
    ELSE ~split.ok

\* C19: for every relPath p a map handler is given, the split of p is as
\* specified: ('', '') for the empty path; for a path with a leading '/' the
\* pair (a, b) with a + b = p, a the '/' followed by the longest run of
\* [A-Za-z0-9_-], b empty or starting with a character outside that set; and
\* for a non-empty path without a leading '/' the split fails and the request
\* is answered 404.
C19_SplitThisAndNextLevel ==
    \A c \in Callers :
        HBPCall(c) =>
            \A i \in 1..Len(call[c].calls) :
                call[c].calls[i].handler.kind = "Map" =>
                    LET p == call[c].calls[i].relPath
                        split == _SplitThisAndNextLevelPath(p)
                    IN  /\ SplitAsSpecified(p, split)
                        /\ (p # <<>> /\ p[1] # "/") =>
                              (i = Len(call[c].calls) /\ AnsweredNotFound(c))

\* A first-level split stopped at a character that is neither '/' nor in the
\* set, and the second-level map, given a remainder without a leading '/',
\* answered 404
C19_Witness ==
    \E c \in Callers :
        /\ HBPCall(c)
        /\ AnsweredNotFound(c)
        /\ Len(call[c].calls) = 2
        /\ call[c].calls[2].handler.kind = "Map"
        /\ call[c].calls[2].relPath = <<".", "x">>

-----------------------------------------------------------------------------
\* Claims about Terminate() and the serve thread (ServerBase.py l.83-94)

WaitingForServeThread(t) == termPc[t] = "join" /\ servePc # "exited"

\* C29: Terminate() does not hold stateLock while it waits for the serve
\* thread to exit, so that no ThreadedServeUntilTerminate() call waits for
\* stateLock for as long as the accept loop takes to stop.
C29_JoinOutsideStateLock ==
    \A t \in Terminators : WaitingForServeThread(t) => stateLock # t

SomeTerminateCalled == \E t \in Terminators : termPc[t] # "idle"

\* C30: Terminate() sets the termination event before it waits for the serve
\* thread and never stops a handler by force: a handler that runs inside the
\* serve thread and loops until the event is set leaves its loop only by
\* seeing the event and returning to the accept loop, and every Terminate()
\* called while such a handler runs eventually returns.
C30_BusyHandlerSeesEventAndTerminateReturns ==
    /\ [](\A t \in Terminators :
            termPc[t] \in {"lock", "chkStarted", "join"} => terminateEvent)
    /\ [][(servePc = "busy" /\ servePc' # "busy")
            => terminateEvent /\ servePc' = "actions"]_vars
    /\ \A t \in Terminators :
         (servePc = "busy" /\ termPc[t] # "idle") ~> (termPc[t] = "done")

\* Terminate() waits for the serve thread while the handler is in its loop.
C30_Witness ==
    \E t \in Terminators : termPc[t] = "join" /\ servePc = "busy"

-----------------------------------------------------------------------------
\* Claims about the Host-field parser (checked under HostFieldSpec)

HostFieldReturned == hfResult.kind \in {"DOMAIN", "IPV4", "IPV6"}
HasExplicitPort == \E p \in HostPortSamples \ {<<>>} :
                      \E m \in HostMainSamples : hfHost = m \o p

\* C26: every host field ParseHostField returns has a port between 1 and
\* 65535, and a Host value without an explicit port gets defaultPort.
C26_PortInRange ==
    HostFieldReturned =>
        /\ hfResult.port \in 1..65535
        /\ (~HasExplicitPort => hfResult.port = hfDefaultPort)

-----------------------------------------------------------------------------
\* Claims about DownstreamHandlerBlockByRate behind the HTTP Pre-Handler
\* (checked under HttpSpec)

BlockByRateIsRoot == Len(chain) >= 1 /\ chain[1] = "BlockByRate"

\* C25: on an HTTP or HTTPS server whose root handler is
\* DownstreamHandlerBlockByRate, a request from a client that is not blocked
\* is forwarded to the downstream handler and the client receives that
\* handler's response.
C25_BlockByRateForwardsUnblocked ==
    (BlockByRateIsRoot /\ rootInvoked) =>
        /\ handlerRan.ran
        /\ (wpc = "loop" /\ ~terminateEvent) =>
              py.written = 1 /\ py.last.via = "DoResponse"

-----------------------------------------------------------------------------
\* Claims about HandlerState (checked under HandlerStateSpec)

\* worker w takes the step that reads or writes the dict
DictStep(w) == hsPc[w] = "locked" /\ hsPc'[w] = "unlock"

\* C28: HandlerState is a linearizable map under concurrent workers: a read
\* of key k returns the value of the most recent write to k that has
\* returned, a write to k leaves every other key as it was, and a read of a
\* key never written raises KeyError and leaves the store as it was.
C28_LinearizableMap ==
    [][\A w \in Workers :
          DictStep(w) =>
             LET k == hsCall[w].key
             IN  IF hsCall[w].op = "get"
                   THEN /\ hsStore' = hsStore
                        /\ hsCall'[w].result =
                              IF hsCompleted[k] = Missing THEN KeyError
                              ELSE hsCompleted[k]
                   ELSE /\ hsStore'[k] = hsCall[w].value
                        /\ \A j \in StateKeys \ {k} : hsStore'[j] = hsStore[j]]_vars

\* One worker has read the value another worker wrote, a third call found its
\* key missing while the other key was set.
C28_Witness ==
    \E w, u \in Workers :
        /\ w # u
        /\ hsPc[w] = "unlock" /\ hsCall[w].op = "get"
        /\ hsCall[w].result = KeyError
        /\ hsPc[u] = "idle" /\ hsCall[u].op = "get"
        /\ hsCall[u].result \in StateValues
        /\ hsStore[hsCall[u].key] # hsCall[u].result

-----------------------------------------------------------------------------
\* Claims about the TLS listener (checked under ListenLiveSpec)

\* the loaded certificate's notAfter minus one day is in the past
PastReloadMargin == lsPathSet /\ lsNow + 1 > lsExpiresAt

-----------------------------------------------------------------------------
\* Claims about the TLS peer verifier (checked under StageSpec)

SupportedKeyTypes == {"Ed25519PublicKey", "EllipticCurvePublicKey", "RSAPublicKey"}

\* the calls of TLS.HandleRequest, and those whose _VerifyCertChain succeeded
TLSCalls == {c \in Callers : stageCfg.kind = "TLS" /\ cpc[c] # "idle"}
ChainVerified == {c \in TLSCalls : call[c].calls # <<>> /\ call[c].calls[1].err = ""}

\* the certificate after position i of a verified chain: the next
\* certificate, or the trust anchor after the last one
IssuerAt(v, root, i) == IF i = Len(v) THEN root ELSE v[i + 1]

\* sub names iss as its issuer, its signature verifies under the key of iss,
\* and it is inside its validity period
LinkedTo(sub, iss) ==
    /\ sub.issuer = iss.subject
    /\ sub.signer = iss.key
    /\ sub.inWindow

\* C23: when the issuer's public key is of a type other than Ed25519, ECDSA
\* or RSA, the signature check under it fails, so no certificate is accepted
\* as the next link under such an issuer, and the request is answered 403.
C23_UnsupportedKeyTypeRejected ==
    \A c \in TLSCalls :
        /\ \A i \in 1..Len(call[c].input[1].chain) :
              LET sub == call[c].input[1].chain[i]
              IN  (\E iss \in CertSamples :
                      /\ sub.issuer = iss.subject
                      /\ KeyType(iss.key) \notin SupportedKeyTypes)
                    => call[c].code = 403 /\ call[c].forwards = 0
        /\ c \in ChainVerified =>
              LET v == call[c].calls[1].verified
              IN  \A i \in 1..Len(v) :
                     KeyType(IssuerAt(v, call[c].calls[1].root, i).key)
                        \in SupportedKeyTypes

\* C21: whenever _VerifyCertChain succeeds, each certificate of the returned
\* chain names the next one as its issuer, is signed by the next one's key
\* and is inside its validity period, the last one standing in that relation
\* to the trust anchor (so the leaf is first), whatever the order in which
\* the peer presented the certificates.
C21_VerifiedChainIsLinked ==
    \A c \in ChainVerified :
        LET v == call[c].calls[1].verified
        IN  \A i \in 1..Len(v) :
               LinkedTo(v[i], IssuerAt(v, call[c].calls[1].root, i))

\* the certificates of the sequence s
CertsOf(s) == {s[i] : i \in 1..Len(s)}

\* C22: the TLS stage forwards a request only if every presented certificate
\* is in the verified chain, linked to the next one (issuer name, signature,
\* validity period), or has the public key of the anchor or of a verified
\* certificate; a presented chain with a certificate that has no such link
\* and no such key, or without a trust anchor, is answered 403 and not
\* forwarded.
C22_AcceptsOnlyLinkedChains ==
    \A c \in TLSCalls :
        LET presented == call[c].input[1].chain
            anchors == CertsOf(stageCfg.rootCaCerts)
            Placed(x) == \E t \in anchors \cup CertsOf(presented) :
                            x.key = t.key \/ LinkedTo(x, t)
        IN  /\ call[c].forwards > 0 =>
                 /\ c \in ChainVerified
                 /\ LET v == call[c].calls[1].verified
                        root == call[c].calls[1].root
                    IN  /\ root \in anchors
                        /\ \A i \in 1..Len(v) : LinkedTo(v[i], IssuerAt(v, root, i))
                        /\ \A x \in CertsOf(presented) \ CertsOf(v) :
                              \E t \in {root} \cup CertsOf(v) : x.key = t.key
            /\ (call[c].input[1].kind = "chain"
                  /\ (\E x \in CertsOf(presented) : ~Placed(x)))
                 => call[c].code = 403 /\ call[c].forwards = 0

-----------------------------------------------------------------------------
\* Claims about DownstreamHandlerBlockByRate's records (checked under
\* BlockSpec)

\* C24: once a request from an IP has raised that IP's count in the window
\* above maxNumRequests, the next request from that IP is dropped without a
\* downstream call, also with concurrent callers; and with savedStatePath
\* set, the saved file lists the IP by the time that next request is
\* checked.
C24_NextRequestBlockedAndSaved ==
    \A c \in BlockThreads :
        (bbCall[c].after /\ bbCall[c].checked) =>
            /\ bbCall[c].blocked
            /\ bbCall[c].forwards = 0
            /\ bbCfg.saved => bbCall[c].listed

-----------------------------------------------------------------------------
\* Claims about the Pre-Handler's send step and the connection's read loop
\* (checked under HttpSpec)

\* C31: after the downstream call has returned or raised, the Pre-Handler
\* writes the response exactly when the termination event is not set and
\* hasResponseSent is false, and that write sets hasResponseSent; within one
\* request hasResponseSent never goes back to false, so no second response
\* follows one the handler sent, and none is written when the server is
\* terminating.
C31_RespondIffNotTerminatedNotSent ==
    [][/\ (wpc = "respond" /\ wpc' # "respond")
          => /\ (py'.written = py.written + 1) <=> (~terminateEvent /\ ~py.sent)
             /\ (py'.written # py.written) => (~py.sent /\ py'.sent)
             /\ py'.written <= 1
       /\ (py.sent /\ wpc # "loop") => py'.sent]_vars


InIsIpBlocked(c) == bbPc[c] \notin {"idle", "decide", "done"}

\* The worker holds _blockedStateLock only in the one-statement with blocks
HoldsStateLockBriefly(c) ==
    bbStateLock = c => bbPc[c] \in {"checking", "adding", "serializing"}

\* C33: no worker tries to take requesterRecordLock while it holds
\* blockedStateLock: blockedStateLock is held only for the blocked-state
\* check, the AddHost and the Serialize (the last two with
\* requesterRecordLock held); so some worker inside IsIpBlocked can always
\* take a step, and every request eventually leaves IsIpBlocked.
C33_LockOrderNoDeadlock ==
    /\ [](\A c \in BlockThreads :
            /\ HoldsStateLockBriefly(c)
            /\ bbPc[c] = "lock" => bbStateLock # c
            /\ bbPc[c] \in {"adding", "serializing"} => bbRecordLock = c)
    /\ []((\E c \in BlockThreads : InIsIpBlocked(c))
            => \E c \in BlockThreads : InIsIpBlocked(c) /\ ENABLED BlockCallerStep(c))
    /\ \A c \in BlockThreads : InIsIpBlocked(c) ~> ~InIsIpBlocked(c)

\* One worker waits for requesterRecordLock while another, holding it, is
\* inside the with block of blockedStateLock for the AddHost, and the call
\* of the first one has come back from IsIpBlocked before.
C33_Witness ==
    \E c, u \in BlockThreads :
        /\ c # u
        /\ bbPc[c] = "lock"
        /\ bbPc[u] = "adding"
        /\ bbRecordLock = u
        /\ bbStateLock = u
        /\ bbIssued >= 3

\* C34: with savedStatePath set, the saved-state file is replaced
\* atomically when an IP is added: at every moment the file holds a
\* complete JSON state (the previous or the new one), never an empty or
\* partial document.
C34_SavedFileNeverPartial ==
    bbCfg.saved => bbFile.state \in {"absent", "written"}

\* number of entries of the IP in _requesterList
RECURSIVE EntriesOf(_, _)
EntriesOf(list, ip) ==
    IF list = <<>> THEN 0
    ELSE (IF Head(list).ip = ip THEN 1 ELSE 0) + EntriesOf(Tail(list), ip)

\* C38: whenever requesterRecordLock is free, requesterCounter[ip] equals
\* the number of entries of that IP in requesterList for every IP, and the
\* counter holds no IP with a count of zero or less.
C38_CounterMatchesList ==
    bbRecordLock = 0 =>
        /\ \A ip \in DOMAIN bbCounter :
              bbCounter[ip] >= 1 /\ bbCounter[ip] = EntriesOf(bbList, ip)
        /\ \A ip \in IpObjs \ DOMAIN bbCounter : EntriesOf(bbList, ip) = 0

\* An IP whose count had exceeded the limit has left the window and the
\* counter again, while another IP is in it.
C38_Witness ==
    /\ bbRecordLock = 0
    /\ \E ip \in bbExceeded : ip \notin DOMAIN bbCounter
    /\ Len(bbList) >= 1

-----------------------------------------------------------------------------
\* Claims about failures inside accept() (checked under ListenLiveSpec)

-----------------------------------------------------------------------------
\* Claims about the headers of a written response (checked under HttpSpec)

\* the values DoResponse wrote for the header `key`, one line each
ValuesWritten(key) ==
    IF \E i \in 1..Len(py.lastHeaders) : py.lastHeaders[i].key = key
      THEN py.lastHeaders[CHOOSE i \in 1..Len(py.lastHeaders) :
                              py.lastHeaders[i].key = key].values
      ELSE <<>>

\* C36: a response that DoResponse wrote with a body carries exactly one
\* Content-Length value and one Content-Type value, and the Content-Length
\* value is the length of the body written, also when the handler or a
\* stage had set a response before an exception made the Pre-Handler apply
\* the 500 fallback.
C36_OneContentLengthAndType ==
    (py.last.via = "DoResponse" /\ py.last.body # NoBody)
        => /\ Len(ValuesWritten("Content-Length")) = 1
           /\ Len(ValuesWritten("Content-Type")) = 1
           /\ ValuesWritten("Content-Length")[1] = ToString(BodyLen(py.last.body))

-----------------------------------------------------------------------------
\* Claims about the order of RateLimiter's window (checked under StageSpec)

\* C37: after the eviction step of a RateLimiter call that read the time
\* now, every timestamp left in the window is at most timePeriodSec older
\* than now and the window is in non-decreasing order, also when concurrent
\* calls read the clock before they take the lock and take the lock in
\* another order than they read the clock.
C37_WindowFreshAndSorted ==
    \A c \in Callers :
        (stageCfg.kind = "RateLimiter" /\ cpc[c] = "check") =>
            /\ \A i \in 1..Len(reqTimes) :
                  call[c].now - reqTimes[i] <= stageCfg.timePeriodSec
            /\ \A i \in 1..(Len(reqTimes) - 1) : reqTimes[i] <= reqTimes[i + 1]

-----------------------------------------------------------------------------
\* Claims about Terminate() and a handshake in progress (checked under
\* TlsLiveSpec)

\* C39: on a TLS or HTTPS server started with ThreadedServeUntilTerminate(),
\* every Terminate() that was called returns, also when a client has
\* connected and never completes, or never starts, the handshake.
C39_TerminateReturnsDespiteHandshake ==
    \A t \in Terminators : (termPc[t] = "shutdown") ~> (termPc[t] = "done")

-----------------------------------------------------------------------------
\* Claims about ServeUntilTerminate() (checked under DirectLiveSpec)

\* the accept loop is polling or accepting on the listening socket
LoopOnSocket == servePc \in {"top", "select", "post", "handle", "actions"}

\* C40 as stated: when the accept loop runs in the thread that called
\* ServeUntilTerminate() and another thread calls Terminate(), the
\* listening socket is not closed, and Terminate() has not returned, while
\* the accept loop is still polling or accepting on that socket.
C40_NoCloseWhileLoopRuns ==
    LoopOnSocket => (~socketClosed /\ ~SomeTerminateReturned)

\* C40, amended: Terminate() does not wait for an accept loop that runs in
\* the thread that called ServeUntilTerminate(); it closes the listening
\* socket, and returns, only after it has set the termination event and
\* the shutdown flag, possibly while the loop is still polling on that
\* socket; the loop then accepts no connection any more and exits at its
\* next test of the shutdown flag.
C40_CloseAfterFlagsLoopExits ==
    /\ [](\A t \in Terminators :
            termPc[t] \in {"chkStarted", "unlock"} => ~hasServeThreadStarted)
    /\ [][\A t \in Terminators :
            termPc[t] = "chkStarted" => termPc'[t] \in {"chkStarted", "unlock"}]_vars
    /\ [](socketClosed => terminateEvent /\ hasShutdownRequest)
    /\ [](SomeTerminateReturned => socketClosed)
    /\ [][socketClosed => numAccepted' = numAccepted]_vars
    /\ [][(socketClosed /\ servePc \in {"top", "post"})
            => servePc' \in {servePc, "exited"}]_vars
    /\ (socketClosed /\ LoopOnSocket) ~> (servePc = "exited")

\* Terminate() has returned and the socket is closed while the loop, which
\* had found a connection pending, has not looked at the flag again.
C40_Witness ==
    /\ SomeTerminateReturned
    /\ socketClosed
    /\ servePc = "handle"
    /\ ~hasServeThreadStarted

====
